---- MODULE Spec2Model ----
(***************************************************************************)
(* A model of tshistory: the diff/patch algebra of util.SeriesServices,    *)
(* the chunked snapshot store of snapshot.Snapshot and the revision log of *)
(* tsio.timeseries.                                                        *)
(*                                                                         *)
(* A pandas Series is a sequence of points [d |-> value date, v |-> value] *)
(* in positional order.  Value dates are integers, values are strings and  *)
(* the null value (NaN / None) is the string "null".                       *)
(***************************************************************************)
EXTENDS Integers, Sequences, FiniteSets, TLC

\* value dates range over 1..MaxDate
MaxDate == 3

Dates == 1..MaxDate
Null == "null"
Values == {"x", "y"}

\* Python's None, where a series is expected
None == << [d |-> 0, v |-> "None"] >>

\* an exception, where a series is expected
Raised(e) == << [d |-> 0, v |-> e] >>

\* None where a name is expected
NoName == "None"

VARIABLES
    base,       \* SpecDiff: first argument of diff / patch
    other,      \* SpecDiff: second argument of diff
    out,        \* SpecDiff: result of the last call
    pc,         \* SpecDiff: which call produced out
    tsh,        \* the database tables and the caches of the timeseries object
    ret,        \* the last API call and what it returned or raised
    ref,        \* reference content of each series: date -> last value inserted
    cn          \* SpecTx: the changeset sequence and the open transactions

diffvars == << base, other, out, pc >>
storevars == << tsh, ret, ref >>
vars == << diffvars, storevars, cn >>

--------------------------------------------------------------------------
\* pandas helpers

isnull(v) == v = Null

index(ts) == {ts[i].d : i \in DOMAIN ts}

valueat(ts, d) == ts[CHOOSE i \in DOMAIN ts : ts[i].d = d].v

NotNullPoint(p) == ~isnull(p.v)

\* dropna that keeps the nans
dropna_keeps(ts) == ts

dropna(ts) == SelectSeq(ts, NotNullPoint)

indexmin(ts) == CHOOSE d \in index(ts) : \A e \in index(ts) : d <= e

indexmax(ts) == CHOOSE d \in index(ts) : \A e \in index(ts) : d >= e

RECURSIVE sorted(_)
sorted(S) ==
    IF S = {} THEN << >>
    ELSE LET m == CHOOSE d \in S : \A e \in S : d <= e
         IN << m >> \o sorted(S \ {m})

is_monotonic_increasing(ts) ==
    \A i \in DOMAIN ts : \A j \in DOMAIN ts : i < j => ts[i].d <= ts[j].d

sort_index(ts) ==
    LET ds == sorted(index(ts))
    IN [i \in 1..Len(ds) |-> [d |-> ds[i], v |-> valueat(ts, ds[i])]]

\* ts.loc[from:to] on a sorted index; 0 stands for an absent bound
loc(ts, from, to) ==
    LET Inside(p) == (from = 0 \/ p.d >= from) /\ (to = 0 \/ p.d <= to)
    IN SelectSeq(ts, Inside)

--------------------------------------------------------------------------
\* util.SeriesServices

patch(b, df) ==
    LET newindex == sorted(index(b) \cup index(df))
    IN [i \in 1..Len(newindex) |->
          [d |-> newindex[i],
           v |-> IF newindex[i] \in index(df)
                 THEN valueat(df, newindex[i])
                 ELSE valueat(b, newindex[i])]]

\* diff without its deletions: a null over a value of the base is dropped
diff_nodeletion(b, o) ==
    IF b = None THEN o
    ELSE LET nb == dropna(b)
         IN IF Len(nb) = 0 THEN o
            ELSE LET mask_overlap(p) == p.d \in index(nb)
                     changed(p) == /\ mask_overlap(p)
                                   /\ valueat(nb, p.d) # p.v
                                   /\ ~isnull(p.v)
                     added(p) == ~mask_overlap(p) /\ ~isnull(p.v)
                 IN SelectSeq(o, changed) \o SelectSeq(o, added)

diff(b, o) ==
    IF b = None THEN o
    ELSE LET nb == dropna(b)
         IN IF Len(nb) = 0 THEN o
            ELSE LET mask_overlap(p) == p.d \in index(nb)
                     changed(p) == mask_overlap(p) /\ valueat(nb, p.d) # p.v
                     added(p) == ~mask_overlap(p) /\ ~isnull(p.v)
                 IN SelectSeq(o, changed) \o SelectSeq(o, added)

--------------------------------------------------------------------------
\* snapshot.Snapshot: the chunk table of one series
\* a chunk table is [rows |-> set of chunk rows, seq |-> last id given];
\* parent = 0 is the SQL NULL

\* points per chunk (250 in snapshot.py, scaled down as the tests do)
max_bucket_size == 2

reverse(s) == [i \in 1..Len(s) |-> s[Len(s) + 1 - i]]

_serialize(ts) ==
    [indexes |-> [i \in DOMAIN ts |-> ts[i].d],
     values |-> [i \in DOMAIN ts |-> ts[i].v]]

RECURSIVE join_indexes(_)
join_indexes(chunks) ==
    IF chunks = << >> THEN << >>
    ELSE chunks[1].indexes \o join_indexes(Tail(chunks))

RECURSIVE join_values(_)
join_values(chunks) ==
    IF chunks = << >> THEN << >>
    ELSE chunks[1].values \o join_values(Tail(chunks))

\* the series of a list of chunk payloads, oldest first; AssertionError when
\* one of the two assertions of the decoder fails
_chunks_to_ts(chunks) ==
    LET idx == join_indexes(chunks)
        values == join_values(chunks)
        serie == [i \in 1..Len(idx) |-> [d |-> idx[i], v |-> values[i]]]
    IN IF Len(values) # Len(idx) THEN Raised("AssertionError")
       ELSE IF ~is_monotonic_increasing(serie) THEN Raised("AssertionError")
       ELSE serie

\* buckets that never splits
buckets_whole(ts) == << ts >>

buckets(ts) ==
    IF Len(ts) < max_bucket_size THEN << ts >>
    ELSE LET n == (Len(ts) + max_bucket_size - 1) \div max_bucket_size
         IN [k \in 1..n |->
               SubSeq(ts, (k - 1) * max_bucket_size + 1,
                      IF k * max_bucket_size < Len(ts)
                      THEN k * max_bucket_size ELSE Len(ts))]

RECURSIVE insert_each(_, _, _)
insert_each(table, parent, bs) ==
    IF bs = << >> THEN [table |-> table, head |-> parent]
    ELSE LET id == table.seq + 1
             row == [id |-> id,
                     parent |-> parent,
                     cstart |-> indexmin(bs[1]),
                     cend |-> indexmax(bs[1]),
                     chunk |-> _serialize(bs[1])]
         IN insert_each([rows |-> table.rows \cup {row}, seq |-> id],
                        id, Tail(bs))

\* insert_buckets into a table emptied first
insert_buckets_emptied(table, parent, ts) ==
    insert_each([rows |-> {}, seq |-> table.seq], parent, buckets(ts))

insert_buckets(table, parent, ts) == insert_each(table, parent, buckets(ts))

chunkrow(table, cid) == CHOOSE c \in table.rows : c.id = cid

\* the walk that also drops the parent ending on the bound
RECURSIVE allchunks_from_strict(_, _, _)
allchunks_from_strict(table, cid, from) ==
    LET c == chunkrow(table, cid)
    IN IF \E p \in table.rows :
              p.id = c.parent /\ (from = 0 \/ p.cend > from)
       THEN << c >> \o allchunks_from_strict(table, c.parent, from)
       ELSE << c >>

\* rawsql: the head, then each parent in turn while its cend >= from
\* (from = 0: no bound)
RECURSIVE allchunks_from(_, _, _)
allchunks_from(table, cid, from) ==
    LET c == chunkrow(table, cid)
    IN IF \E p \in table.rows :
              p.id = c.parent /\ (from = 0 \/ p.cend >= from)
       THEN << c >> \o allchunks_from(table, c.parent, from)
       ELSE << c >>

\* rawchunks that always reads the whole chain
rawchunks_unbounded(table, head, from_value_date) ==
    reverse(allchunks_from(table, head, 0))

rawchunks(table, head, from_value_date) ==
    reverse(allchunks_from(table, head, from_value_date))

payloads(rows) == [i \in DOMAIN rows |-> rows[i].chunk]

chunk(table, head, from_value_date, to_value_date) ==
    LET snapdata == _chunks_to_ts(payloads(rawchunks(table, head, from_value_date)))
    IN IF snapdata = Raised("AssertionError") THEN snapdata
       ELSE loc(snapdata, from_value_date, to_value_date)

--------------------------------------------------------------------------
\* The state handed through the calls: the tables of the database
\*   registry          set of [id, seriename, table_name, metadata]
\*   registry_seq      last registry id given
\*   changeset         sequence of [id, insertion_date, info], id = position;
\*                     info is metadata['tshistory.info'], "None" when unset
\*   changeset_series  set of [cset, serie]
\*   timeserie         table name -> [rows |-> revision rows, seq |-> last id]
\*   snapshot          table name -> chunk table
\* and the caches of the timeseries object
\*   metadatacache, registry_map, serie_tablename   (functions of the cached names)

RECURSIVE rows_by_id(_)
rows_by_id(rows) ==
    IF rows = {} THEN << >>
    ELSE LET r == CHOOSE x \in rows : \A y \in rows : x.id <= y.id
         IN << r >> \o rows_by_id(rows \ {r})

\* a filter of a changeset query: a callable (what get and history build) or
\* a piece of sql (what findall builds)
Callable(column, op, arg) ==
    [kind |-> "callable", column |-> column, op |-> op, arg |-> arg]
Sql(column, op, arg) ==
    [kind |-> "sql", column |-> column, op |-> op, arg |-> arg]

filter_holds(f, cset) ==
    LET x == IF f.column = "cset.id" THEN cset.id ELSE cset.insertion_date
    IN CASE f.op = "<=" -> x <= f.arg
         [] f.op = ">=" -> x >= f.arg
         [] OTHER -> x = f.arg

\* a query on the tables of a series fails when they do not exist
has_table(st, tablename) == tablename \in DOMAIN st.timeserie

\* cset_heads_query and its execution: the revision rows joined with their
\* changeset, in descending id order.  'and ' + filtercb raises TypeError for
\* a filter that is a callable; undefined_table: the query names a revision
\* table the database does not hold.
cset_heads_query(st, tablename, csetfilter) ==
    IF \E i \in DOMAIN csetfilter : csetfilter[i].kind = "callable"
    THEN [raised |-> TRUE, undefined_table |-> FALSE, rows |-> << >>]
    ELSE IF ~has_table(st, tablename)
    THEN [raised |-> FALSE, undefined_table |-> TRUE, rows |-> << >>]
    ELSE LET kept == {r \in st.timeserie[tablename].rows :
                        /\ r.cset \in DOMAIN st.changeset
                        /\ \A i \in DOMAIN csetfilter :
                              filter_holds(csetfilter[i], st.changeset[r.cset])}
         IN [raised |-> FALSE, undefined_table |-> FALSE,
             rows |-> reverse(rows_by_id(kept))]

\* Snapshot.find: [csid, chunk]; csid = 0 and chunk = None when no row matches
find(st, tablename, csetfilter, from_value_date, to_value_date) ==
    LET q == cset_heads_query(st, tablename, csetfilter)
    IN IF q.raised THEN [csid |-> 0, chunk |-> Raised("TypeError")]
       ELSE IF q.undefined_table
       THEN [csid |-> 0, chunk |-> Raised("ProgrammingError")]
       ELSE IF q.rows = << >> THEN [csid |-> 0, chunk |-> None]
       ELSE [csid |-> q.rows[1].cset,
             chunk |-> chunk(st.snapshot[tablename], q.rows[1].snapshot,
                             from_value_date, to_value_date)]

\* Snapshot.update with the patched buckets chained onto the oldest chunk read
\* instead of onto its parent
update_onto_oldest(table, head, df) ==
    LET diffstart == indexmin(df)
        raw == rawchunks(table, head, diffstart)
        oldsnapshot == _chunks_to_ts(payloads(raw))
    IN IF oldsnapshot = Raised("AssertionError")
       THEN [table |-> table, head |-> 0, raised |-> TRUE]
       ELSE LET r == IF diffstart > indexmax(oldsnapshot)
                     THEN insert_buckets(table, raw[1].id, df)
                     ELSE insert_buckets(table, raw[1].id,
                                         patch(oldsnapshot, df))
            IN [table |-> r.table, head |-> r.head, raised |-> FALSE]

\* Snapshot.update: [table, head, raised]
update(table, head, df) ==
    LET diffstart == indexmin(df)
        raw == rawchunks(table, head, diffstart)
        oldsnapshot == _chunks_to_ts(payloads(raw))
    IN IF oldsnapshot = Raised("AssertionError")
       THEN [table |-> table, head |-> 0, raised |-> TRUE]
       ELSE LET r == IF diffstart > indexmax(oldsnapshot)
                     THEN insert_buckets(table, raw[1].id, df)
                     ELSE insert_buckets(table, raw[1].parent,
                                         patch(oldsnapshot, df))
            IN [table |-> r.table, head |-> r.head, raised |-> FALSE]

--------------------------------------------------------------------------
\* tsio.timeseries
\* an operator that may fill a cache returns [st |-> new state, val |-> result]

registered(st, seriename) == \E r \in st.registry : r.seriename = seriename

registry_row(st, seriename) == CHOOSE r \in st.registry : r.seriename = seriename

_serie_to_tablename(st, seriename) ==
    IF seriename \in DOMAIN st.serie_tablename
    THEN [st |-> st, val |-> st.serie_tablename[seriename]]
    ELSE IF ~registered(st, seriename)
    THEN [st |-> st, val |-> NoName]
    ELSE LET tablename == registry_row(st, seriename).table_name
         IN [st |-> [st EXCEPT !.serie_tablename = (seriename :> tablename) @@ @],
             val |-> tablename]

\* the metadata query returns None for an unknown series
\* (topic stands for the keys a caller adds with update_metadata; "None": unset)
NoMeta ==
    [tzaware |-> FALSE, index_type |-> "None", value_type |-> "None",
     topic |-> "None"]

metadata(st, seriename) ==
    IF seriename \in DOMAIN st.metadatacache
    THEN [st |-> st, val |-> st.metadatacache[seriename]]
    ELSE IF ~registered(st, seriename)
    THEN [st |-> st, val |-> NoMeta]
    ELSE LET meta == registry_row(st, seriename).metadata
         IN [st |-> [st EXCEPT !.metadatacache = (seriename :> meta) @@ @],
             val |-> meta]

_name_to_regid(st, seriename) ==
    IF seriename \in DOMAIN st.registry_map
    THEN [st |-> st, val |-> st.registry_map[seriename]]
    ELSE LET regid == IF registered(st, seriename)
                      THEN registry_row(st, seriename).id ELSE 0
         IN [st |-> [st EXCEPT !.registry_map = (seriename :> regid) @@ @],
             val |-> regid]

\* [start, end] of the non-null points, 0 for None
start_end(ts) ==
    LET nts == dropna(ts)
    IN IF Len(nts) = 0 THEN [start |-> 0, end |-> 0]
       ELSE [start |-> indexmin(nts), end |-> indexmax(nts)]

\* the dtypes of a series of strings with a naive index
ObjectType == [value_type |-> "object", index_type |-> "datetime64[ns]"]

\* tstype: the dtypes of ts, [value_type, index_type]
_series_initial_meta(ts, tstype) ==
    [tzaware |-> tstype.index_type = "datetime64[ns, UTC]",
     index_type |-> tstype.index_type,
     value_type |-> tstype.value_type,
     topic |-> "None"]

\* postgresql table names are limited to 63 chars
max_identifier_length == 63

\* hashlib.sha1(seriename).hexdigest(): one digest per name
sha1_hexdigest(seriename) == "sha1-" \o seriename

\* the collision is looked up with table_name = seriename; a uuid4 is fresh
_make_tablename(st, seriename) ==
    IF \E r \in st.registry : r.table_name = seriename
    THEN "uuid4-" \o ToString(st.registry_seq + 1)
    ELSE IF Len(seriename) > max_identifier_length
    THEN sha1_hexdigest(seriename)
    ELSE seriename

\* a registry without any unique constraint
registry_unique_unchecked(st, regid, seriename, table_name) == FALSE

\* the registry holds one row per series name and one per table name: a
\* statement that would give it a second one fails
registry_unique_violation(st, regid, seriename, table_name) ==
    \E r \in st.registry :
       r.id # regid /\ (r.seriename = seriename \/ r.table_name = table_name)

_register_serie(st, seriename, ts, tstype) ==
    LET regid == st.registry_seq + 1
        row == [id |-> regid,
                seriename |-> seriename,
                table_name |-> _make_tablename(st, seriename),
                metadata |-> _series_initial_meta(ts, tstype)]
    IN [st EXCEPT !.registry = @ \cup {row},
                  !.registry_seq = regid,
                  !.registry_map = (seriename :> regid) @@ @]

\* the wall clock of _newchangeset when no insertion date is given
utcnow(st) == Len(st.changeset) + 1

\* an insertion date below 0 is a datetime without tzinfo, which fails
\* 'assert insertion_date.tzinfo is not None'
tzinfo_is_none(insertion_date) == insertion_date < 0

\* insertion_date = 0 is None
_newchangeset(st, insertion_date) ==
    LET idate == IF insertion_date # 0 THEN insertion_date ELSE utcnow(st)
    IN [st EXCEPT !.changeset =
           Append(@, [id |-> Len(@) + 1, insertion_date |-> idate,
                      info |-> "None"])]

_finalize_insertion(st, csid, seriename) ==
    LET r == _name_to_regid(st, seriename)
    IN [r.st EXCEPT !.changeset_series = @ \cup {[cset |-> csid, serie |-> r.val]}]

\* _validate without the test of the index type
_validate_value_type(st, ts, tstype, seriename) ==
    IF Len(dropna(ts)) = 0 THEN [st |-> st, val |-> "ok"]
    ELSE LET m == metadata(st, seriename)
         IN [st |-> m.st,
             val |-> IF tstype.value_type # m.val.value_type THEN "Exception"
                     ELSE "ok"]

\* "ok", or the exception raised
_validate(st, ts, tstype, seriename) ==
    IF Len(dropna(ts)) = 0 THEN [st |-> st, val |-> "ok"]
    ELSE LET m == metadata(st, seriename)
         IN [st |-> m.st,
             val |-> IF m.val = NoMeta THEN "TypeError"
                     ELSE IF tstype.value_type # m.val.value_type THEN "Exception"
                     ELSE IF tstype.index_type # m.val.index_type THEN "Exception"
                     ELSE "ok"]

\* the latest revision row by cset ([] when there is none)
latest_rows(st, tablename) ==
    {r \in st.timeserie[tablename].rows :
        \A x \in st.timeserie[tablename].rows : x.cset <= r.cset}

\* the head Snapshot.update starts from: order by id desc limit 1
last_head(st, tablename) ==
    LET rows == st.timeserie[tablename].rows
    IN (CHOOSE r \in rows : \A x \in rows : x.id <= r.id).snapshot

\* _create with the series registered before the test for a series full of
\* nans
_create_registers_first(st, newts0, tstype, seriename, insertion_date) ==
    LET se == start_end(newts0)
        newts == loc(newts0, se.start, se.end)
        st1 == _register_serie(st, seriename, newts0, tstype)
    IN IF se.start = 0 \/ Len(newts) = 0 THEN [st |-> st1, val |-> None]
       ELSE
       LET t == _serie_to_tablename(st1, seriename)
           tablename == t.val
           csid == Len(st1.changeset) + 1
           st2 == _newchangeset(t.st, insertion_date)
           st3 == metadata(st2, seriename).st
           created == insert_buckets([rows |-> {}, seq |-> 0], 0, newts)
           span == start_end(newts)
           row == [id |-> 1, cset |-> csid, snapshot |-> created.head,
                   tsstart |-> span.start, tsend |-> span.end]
           st4 == [st3 EXCEPT
                     !.snapshot = (tablename :> created.table) @@ @,
                     !.timeserie = (tablename :> [rows |-> {row}, seq |-> 1]) @@ @]
       IN [st |-> _finalize_insertion(st4, csid, seriename), val |-> newts]

_create(st, newts0, tstype, seriename, insertion_date) ==
    LET se == start_end(newts0)
        newts == loc(newts0, se.start, se.end)
    IN IF se.start = 0 \/ Len(newts) = 0 THEN [st |-> st, val |-> None]
       ELSE IF registry_unique_violation(st, 0, seriename,
                                         _make_tablename(st, seriename))
       THEN [st |-> st, val |-> Raised("IntegrityError")]
       ELSE
       LET st1 == _register_serie(st, seriename, newts, tstype)
           \* Snapshot(cn, self, seriename)
           t == _serie_to_tablename(st1, seriename)
           tablename == t.val
           csid == Len(st1.changeset) + 1
           st2 == _newchangeset(t.st, insertion_date)
           \* snapshot.create; _serialize reads the metadata
           st3 == metadata(st2, seriename).st
           created == insert_buckets([rows |-> {}, seq |-> 0], 0, newts)
           span == start_end(newts)
           row == [id |-> 1, cset |-> csid, snapshot |-> created.head,
                   tsstart |-> span.start, tsend |-> span.end]
           st4 == [st3 EXCEPT
                     !.snapshot = (tablename :> created.table) @@ @,
                     !.timeserie = (tablename :> [rows |-> {row}, seq |-> 1]) @@ @]
       IN IF tzinfo_is_none(insertion_date)
          THEN [st |-> t.st, val |-> Raised("AssertionError")]
          ELSE [st |-> _finalize_insertion(st4, csid, seriename), val |-> newts]

\* no difference: nothing is written and None is returned
no_difference_logged(st) == [st |-> _newchangeset(st, 0), val |-> None]

no_difference(st) == [st |-> st, val |-> None]

\* the erasure let through: a changeset is logged and nothing is returned
complete_erasure_logged(st) == [st |-> _newchangeset(st, 0), val |-> None]

\* raise ValueError('complete erasure of a series is forbidden')
complete_erasure(st) == [st |-> st, val |-> Raised("ValueError")]

\* the value stands for an exception raised
IsRaised(val) == val # << >> /\ val[1].d = 0 /\ val # None

_update(st, tablename, newts, tstype, seriename, insertion_date) ==
    LET v == _validate(st, newts, tstype, seriename)
        \* snapshot.last(newts.index.min(), newts.index.max())
        f == find(v.st, tablename, << >>, indexmin(newts), indexmax(newts))
        \* _chunks_to_ts reads the metadata
        st1 == IF f.csid = 0 THEN v.st ELSE metadata(v.st, seriename).st
        df == diff(f.chunk, newts)
    IN IF v.val # "ok" THEN [st |-> v.st, val |-> Raised(v.val)]
       ELSE IF IsRaised(f.chunk) THEN [st |-> v.st, val |-> f.chunk]
       ELSE IF Len(df) = 0 THEN no_difference(st1)
       ELSE IF latest_rows(st1, tablename) = {}
       THEN [st |-> st1, val |-> Raised("AttributeError")]
       ELSE
       LET span == start_end(newts)
           ival == CHOOSE r \in latest_rows(st1, tablename) : TRUE
           start0 == IF span.start # 0 /\ span.start < ival.tsstart
                     THEN span.start ELSE ival.tsstart
           end0 == IF span.end # 0 /\ span.end > ival.tsend
                   THEN span.end ELSE ival.tsend
           shrinks == isnull(df[1].v) \/ isnull(df[Len(df)].v)
           last == find(st1, tablename, << >>, 0, 0).chunk
           patched == dropna(patch(last, df))
       IN IF shrinks /\ last = Raised("AssertionError")
          THEN [st |-> st1, val |-> last]
          ELSE IF shrinks /\ Len(patched) = 0
          THEN complete_erasure(st1)
          ELSE
          LET start == IF shrinks /\ isnull(df[1].v)
                       THEN patched[1].d ELSE start0
              end == IF shrinks /\ isnull(df[Len(df)].v)
                     THEN patched[Len(patched)].d ELSE end0
              csid == Len(st1.changeset) + 1
              st2 == _newchangeset(st1, insertion_date)
              u == update(st2.snapshot[tablename], last_head(st2, tablename), df)
              revs == st2.timeserie[tablename]
              row == [id |-> revs.seq + 1, cset |-> csid, snapshot |-> u.head,
                      tsstart |-> start, tsend |-> end]
              st3 == [st2 EXCEPT
                        !.snapshot[tablename] = u.table,
                        !.timeserie[tablename] =
                            [rows |-> revs.rows \cup {row}, seq |-> revs.seq + 1]]
          IN IF tzinfo_is_none(insertion_date) \/ u.raised
             THEN [st |-> st1, val |-> Raised("AssertionError")]
             ELSE [st |-> _finalize_insertion(st3, csid, seriename), val |-> df]

\* the tx decorator around a call made with an engine: one transaction, whose
\* writes are rolled back when the call raises; the caches are not part of it
rollback(st0, st) ==
    [st EXCEPT !.registry = st0.registry,
               !.registry_seq = st0.registry_seq,
               !.changeset = st0.changeset,
               !.changeset_series = st0.changeset_series,
               !.timeserie = st0.timeserie,
               !.snapshot = st0.snapshot]

tx(st0, r) ==
    IF IsRaised(r.val) THEN [st |-> rollback(st0, r.st), val |-> r.val] ELSE r

insert(st, newts0, tstype, seriename, insertion_date) ==
    LET newts == IF is_monotonic_increasing(newts0) THEN newts0
                 ELSE sort_index(newts0)
        t == _serie_to_tablename(st, seriename)
    IN IF Len(newts) = 0 THEN [st |-> st, val |-> None]
       ELSE IF t.val = NoName
       THEN tx(st, _create(t.st, newts, tstype, seriename, insertion_date))
       ELSE tx(st, _update(t.st, t.val, newts, tstype, seriename, insertion_date))

--------------------------------------------------------------------------
\* the series over Dates, in date order

SeriesOn(S) ==
    LET ds == sorted(S)
    IN {[i \in 1..Len(ds) |-> [d |-> ds[i], v |-> f[ds[i]]]] :
            f \in [S -> Values \cup {Null}]}

AllSeries == UNION {SeriesOn(S) : S \in SUBSET Dates}

--------------------------------------------------------------------------
\* SpecDiff: diff and patch applied to every pair of series

InitDiff ==
    /\ base \in AllSeries \cup {None}
    /\ other \in AllSeries
    /\ out = None
    /\ pc = "start"
    /\ tsh = << >>
    /\ ret = << >>
    /\ ref = << >>
    /\ cn = << >>

CallDiff ==
    /\ pc = "start"
    /\ out' = diff(base, other)
    /\ pc' = "diff"
    /\ UNCHANGED << base, other, storevars, cn >>

CallPatch ==
    /\ pc = "diff"
    /\ base # None
    /\ out' = patch(base, out)
    /\ pc' = "patch"
    /\ UNCHANGED << base, other, storevars, cn >>

NextDiff == CallDiff \/ CallPatch

SpecDiff == InitDiff /\ [][NextDiff]_vars

\* timeseries.get (not a tx call: nothing to roll back)
get(st, seriename, revision_date, from_value_date, to_value_date) ==
    LET t == _serie_to_tablename(st, seriename)
        csetfilter == IF revision_date # 0
                      THEN << Callable("cset.insertion_date", "<=", revision_date) >>
                      ELSE << >>
        f == find(t.st, t.val, csetfilter, from_value_date, to_value_date)
    IN IF t.val = NoName THEN [st |-> t.st, val |-> None]
       ELSE IF f.chunk = None \/ IsRaised(f.chunk)
       THEN [st |-> t.st, val |-> f.chunk]
       ELSE [st |-> metadata(t.st, seriename).st, val |-> dropna(f.chunk)]

\* --- history and staircase
\* a history is a sequence of [idate, ts] in key order; a call returns
\* [st, kind, map] with kind "none", "map" or the exception raised

\* closed_overlaps: (from, to) overlaps (tsstart, tsend + 1 microsecond), the
\* periods being half open unless reduced to an instant
closed_overlaps(fromdate, todate, tsstart, tsend) ==
    IF fromdate # 0 /\ fromdate = todate
    THEN tsstart <= fromdate /\ fromdate <= tsend
    ELSE /\ (fromdate = 0 \/ fromdate <= tsend)
         /\ (todate = 0 \/ tsstart < todate)

RECURSIVE rows_by_cset(_)
rows_by_cset(rows) ==
    IF rows = {} THEN << >>
    ELSE LET r == CHOOSE x \in rows : \A y \in rows : x.cset <= y.cset
         IN << r >> \o rows_by_cset(rows \ {r})

\* allchunks without the walk: the heads alone
allchunks_heads(table, cids, from_value_date) == cids

\* Snapshot.allchunks: the heads, then the parents whose cend >= from
RECURSIVE allchunks(_, _, _)
allchunks(table, cids, from_value_date) ==
    LET more == {p \in table.rows :
                    /\ p.id \notin cids
                    /\ \E c \in table.rows : c.id \in cids /\ c.parent = p.id
                    /\ (from_value_date = 0 \/ p.cend >= from_value_date)}
    IN IF more = {} THEN cids
       ELSE allchunks(table, cids \cup {p.id : p \in more}, from_value_date)

\* the chunks of one head, chased through the chunk map, newest first
RECURSIVE chase(_, _, _)
chase(table, cids, head) ==
    IF head \notin cids THEN << >>
    ELSE << chunkrow(table, head) >> \o chase(table, cids, chunkrow(table, head).parent)

\* Snapshot.findall: one [idate, ts] per revision of revs
findall(st, tablename, revs, from_value_date, to_value_date) ==
    LET csets == {revs[i].csid : i \in DOMAIN revs} \ {0}
        mincset == CHOOSE c \in csets : \A x \in csets : c <= x
        maxcset == CHOOSE c \in csets : \A x \in csets : c >= x
        q == cset_heads_query(st, tablename,
                              << Sql("cset.id", ">=", mincset),
                                 Sql("cset.id", "<=", maxcset) >>)
        cset_snap_map == [c \in {q.rows[i].cset : i \in DOMAIN q.rows} |->
                            (CHOOSE r \in {q.rows[i] : i \in DOMAIN q.rows} :
                                r.cset = c).snapshot]
        table == st.snapshot[tablename]
        cids == allchunks(table,
                          {cset_snap_map[c] : c \in DOMAIN cset_snap_map},
                          from_value_date)
        serie(cset) ==
            LET ts == _chunks_to_ts(
                          payloads(reverse(chase(table, cids, cset_snap_map[cset]))))
            IN IF IsRaised(ts) THEN ts
               ELSE loc(ts, from_value_date, to_value_date)
    IN [i \in DOMAIN revs |->
          [idate |-> revs[i].idate,
           ts |-> IF revs[i].csid = 0 THEN None ELSE serie(revs[i].csid)]]

\* dict(series) keeping, for a key met again, the value first met
RECURSIVE dict_setdefault(_)
dict_setdefault(entries) ==
    IF entries = << >> THEN << >>
    ELSE LET n == Len(entries)
             rest == dict_setdefault(SubSeq(entries, 1, n - 1))
         IN IF \E i \in DOMAIN rest : rest[i].idate = entries[n].idate
            THEN rest
            ELSE Append(rest, entries[n])

\* dict(series): one entry per key, at the place of its first occurrence,
\* holding the value of its last occurrence
RECURSIVE dict(_)
dict(entries) ==
    IF entries = << >> THEN << >>
    ELSE LET n == Len(entries)
             rest == dict(SubSeq(entries, 1, n - 1))
         IN IF \E i \in DOMAIN rest : rest[i].idate = entries[n].idate
            THEN [i \in DOMAIN rest |->
                    IF rest[i].idate = entries[n].idate THEN entries[n] ELSE rest[i]]
            ELSE Append(rest, entries[n])

\* the diffs of consecutive entries (diffmode)
diffs(series) ==
    [i \in 1..(Len(series) - 1) |->
        [idate |-> series[i + 1].idate,
         ts |-> IF series[i].ts = None THEN series[i + 1].ts
                ELSE diff(series[i].ts, series[i + 1].ts)]]

\* the end of history: the series of the revisions turned into the map
history_map(st, seriename, series, diffmode, _keep_nans) ==
    LET failed == {i \in DOMAIN series : IsRaised(series[i].ts)}
        result == IF diffmode THEN diffs(series)
                  ELSE [i \in DOMAIN series |->
                          [idate |-> series[i].idate,
                           ts |-> IF _keep_nans THEN series[i].ts
                                  ELSE dropna(series[i].ts)]]
    IN IF failed # {}
       THEN [st |-> st,
             kind |-> series[CHOOSE i \in failed : \A j \in failed : i <= j].ts[1].v,
             map |-> << >>]
       ELSE [st |-> metadata(st, seriename).st, kind |-> "map", map |-> dict(result)]

\* the middle of history: the series of each revision of revs, found one by
\* one when a delta is given and all at once otherwise
history_series(st, tablename, seriename, revs, from_value_date, to_value_date, deltabefore, deltaafter, diffmode, _keep_nans) ==
    history_map(st, seriename,
        IF deltabefore # << >> \/ deltaafter # << >>
        THEN [i \in DOMAIN revs |->
                [idate |-> revs[i].idate,
                 ts |-> find(st, tablename,
                             << Callable("cset.id", "=", revs[i].csid) >>,
                             IF deltabefore = << >> THEN 0
                             ELSE revs[i].idate - deltabefore[1],
                             IF deltaafter = << >> THEN 0
                             ELSE revs[i].idate + deltaafter[1]).chunk]]
        ELSE findall(st, tablename, revs, from_value_date, to_value_date),
        diffmode, _keep_nans)

\* _previous_cset: the latest changeset of the series before csid, 0 for None
_previous_cset(st, tablename, csid) ==
    LET before == {r.cset : r \in {x \in st.timeserie[tablename].rows :
                                      x.cset < csid}}
    IN IF before = {} THEN 0
       ELSE CHOOSE c \in before : \A x \in before : c >= x

\* the revisions history selects: [csid, idate] in changeset order
history_revs(st, tablename, from_insertion_date, to_insertion_date, from_value_date, to_value_date) ==
    LET selected ==
            {r \in st.timeserie[tablename].rows :
                /\ r.cset \in DOMAIN st.changeset
                /\ from_insertion_date # 0 =>
                       st.changeset[r.cset].insertion_date >= from_insertion_date
                /\ to_insertion_date # 0 =>
                       st.changeset[r.cset].insertion_date <= to_insertion_date
                /\ (from_value_date # 0 \/ to_value_date # 0) =>
                       closed_overlaps(from_value_date, to_value_date,
                                       r.tsstart, r.tsend)}
        ordered == rows_by_cset(selected)
    IN [i \in DOMAIN ordered |->
          [csid |-> ordered[i].cset,
           idate |-> st.changeset[ordered[i].cset].insertion_date]]

\* history once the table name is known (t = [st, val])
history_of(t, seriename, from_insertion_date, to_insertion_date, from_value_date, to_value_date, deltabefore, deltaafter, diffmode, _keep_nans) ==
    IF t.val = NoName THEN [st |-> t.st, kind |-> "none", map |-> << >>]
    ELSE LET revs == history_revs(t.st, t.val, from_insertion_date,
                                  to_insertion_date, from_value_date,
                                  to_value_date)
         IN IF revs = << >> THEN [st |-> t.st, kind |-> "map", map |-> << >>]
            ELSE history_series(t.st, t.val, seriename,
                     IF diffmode
                     THEN << [csid |-> _previous_cset(t.st, t.val, revs[1].csid),
                              idate |-> 0] >> \o revs
                     ELSE revs,
                     from_value_date, to_value_date, deltabefore, deltaafter,
                     diffmode, _keep_nans)

\* deltabefore and deltaafter are << >> for None and << n >> for n
history(st, seriename, from_insertion_date, to_insertion_date, from_value_date, to_value_date, deltabefore, deltaafter, diffmode, _keep_nans) ==
    history_of(_serie_to_tablename(st, seriename), seriename,
               from_insertion_date, to_insertion_date,
               from_value_date, to_value_date, deltabefore, deltaafter,
               diffmode, _keep_nans)

\* staircase over the history it computed: [st, val]
staircase_of(histo, from_value_date, to_value_date) ==
    LET vdates == UNION {index(histo.map[i].ts) : i \in DOMAIN histo.map}
        \* the first entry that holds vdate with the largest insertion date
        winner(vdate) ==
            CHOOSE i \in DOMAIN histo.map :
                /\ vdate \in index(histo.map[i].ts)
                /\ \A j \in DOMAIN histo.map :
                      vdate \in index(histo.map[j].ts) =>
                          \/ histo.map[j].idate < histo.map[i].idate
                          \/ histo.map[j].idate = histo.map[i].idate /\ i <= j
        ds == sorted(vdates)
        ts == [k \in 1..Len(ds) |->
                 [d |-> ds[k], v |-> valueat(histo.map[winner(ds[k])].ts, ds[k])]]
    IN IF histo.kind = "none" THEN [st |-> histo.st, val |-> None]
       ELSE IF histo.kind # "map" THEN [st |-> histo.st, val |-> Raised(histo.kind)]
       ELSE [st |-> histo.st,
             val |-> dropna(loc(ts, from_value_date, to_value_date))]

\* staircase: [st, val]
staircase(st, seriename, delta, from_value_date, to_value_date) ==
    staircase_of(history(st, seriename, 0, 0, from_value_date, to_value_date,
                         << 0 - delta >>, << >>, FALSE, TRUE),
                 from_value_date, to_value_date)

--------------------------------------------------------------------------
\* log, strip and the garbage of the snapshot store

exists(st, seriename) ==
    LET t == _serie_to_tablename(st, seriename)
    IN [st |-> t.st, val |-> t.val # NoName]

\* _changeset_series: the scalar of the names joined to the changeset
\* (NoName when there is none)
_changeset_series(st, csid) ==
    LET names == {reg.seriename : reg \in
                     {x \in st.registry :
                         [cset |-> csid, serie |-> x.id] \in st.changeset_series}}
    IN IF names = {} THEN NoName ELSE CHOOSE n \in names : TRUE

\* the entries of log as the query returned them
log_unsorted(entries) == entries

\* log.sort(key=lambda rev: rev['rev'])
log_sort(entries) ==
    LET revs == sorted({entries[i].rev : i \in DOMAIN entries})
    IN [k \in DOMAIN revs |->
          entries[CHOOSE i \in DOMAIN entries : entries[i].rev = revs[k]]]

\* log: [rev, date, meta, name] in ascending rev order; names = {} and 0 for
\* the filters not given
log(st, limit, names, fromrev, torev, fromdate, todate) ==
    LET joined == {c \in DOMAIN st.changeset :
                      \E css \in st.changeset_series, reg \in st.registry :
                          /\ css.cset = c
                          /\ reg.id = css.serie
                          /\ names # {} => reg.seriename \in names}
        kept == {c \in joined :
                    /\ fromrev # 0 => c >= fromrev
                    /\ torev # 0 => c <= torev
                    /\ fromdate # 0 => st.changeset[c].insertion_date >= fromdate
                    /\ todate # 0 => st.changeset[c].insertion_date <= todate}
        desc == reverse(sorted(kept))
        rset == IF limit # 0 /\ limit < Len(desc) THEN SubSeq(desc, 1, limit)
                ELSE desc
        entries == [i \in DOMAIN rset |->
                      [rev |-> rset[i],
                       date |-> st.changeset[rset[i]].insertion_date,
                       meta |-> st.changeset[rset[i]].info,
                       name |-> _changeset_series(st, rset[i])]]
    IN log_sort(entries)

\* Snapshot.garbage without the recursion through the parents
garbage_but_heads(st, tablename) ==
    LET table == st.snapshot[tablename]
        heads == {r.snapshot : r \in st.timeserie[tablename].rows}
        allchuks == {c.id : c \in table.rows}
    IN allchuks \ heads

\* Snapshot.garbage: the chunks no revision head reaches
garbage(st, tablename) ==
    LET table == st.snapshot[tablename]
        heads == {r.snapshot : r \in st.timeserie[tablename].rows}
        reachable_chunks == allchunks(table, heads, 0)
        allchuks == {c.id : c \in table.rows}
    IN allchuks \ reachable_chunks

\* reclaim that deletes nothing
reclaim_nothing(st, tablename) == [st |-> st, val |-> None]

\* Snapshot.reclaim: [st, val]; 'where id in ()' is a syntax error
reclaim(st, tablename) ==
    LET todelete == garbage(st, tablename)
    IN IF todelete = {} THEN [st |-> st, val |-> Raised("ProgrammingError")]
       ELSE [st |-> [st EXCEPT !.snapshot[tablename].rows =
                                   {c \in @ : c.id \notin todelete}],
             val |-> None]

\* the delete of strip with 'where cset > csid'
strip_delete_after(rows, csid) == {r \in rows : r.cset <= csid}

\* delete from the revision table where cset >= csid: the rows left
strip_delete(rows, csid) == {r \in rows : r.cset < csid}

\* strip whose log is not asked for the series alone
strip_every_name(st, seriename, csid) ==
    LET t == _serie_to_tablename(st, seriename)
        tablename == t.val
        st1 == [t.st EXCEPT !.timeserie[tablename].rows = strip_delete(@, csid)]
        logs == log(st1, 0, {}, csid, 0, 0, 0)
        revs == {logs[i].rev : i \in DOMAIN logs}
        st2 == [st1 EXCEPT
                  !.changeset = [c \in DOMAIN @ |->
                                    IF c \in revs
                                    THEN [@[c] EXCEPT !.info = "stripped"]
                                    ELSE @[c]],
                  !.changeset_series = {css \in @ : css.cset \notin revs}]
    IN IF ~has_table(t.st, tablename)
       THEN tx(st, [st |-> t.st, val |-> Raised("ProgrammingError")])
       ELSE IF logs = << >>
       THEN tx(st, [st |-> st1, val |-> Raised("AssertionError")])
       ELSE tx(st, reclaim(st2, tablename))

\* strip: [st, val]
strip(st, seriename, csid) ==
    LET t == _serie_to_tablename(st, seriename)
        tablename == t.val
        st1 == [t.st EXCEPT !.timeserie[tablename].rows = strip_delete(@, csid)]
        logs == log(st1, 0, {seriename}, csid, 0, 0, 0)
        revs == {logs[i].rev : i \in DOMAIN logs}
        st2 == [st1 EXCEPT
                  !.changeset = [c \in DOMAIN @ |->
                                    IF c \in revs
                                    THEN [@[c] EXCEPT !.info = "stripped"]
                                    ELSE @[c]],
                  !.changeset_series = {css \in @ : css.cset \notin revs}]
    IN IF ~has_table(t.st, tablename)
       THEN tx(st, [st |-> t.st, val |-> Raised("ProgrammingError")])
       ELSE IF logs = << >>
       THEN tx(st, [st |-> st1, val |-> Raised("AssertionError")])
       ELSE tx(st, reclaim(st2, tablename))

\* interval: [st, val]; val is [left, right, raised], raised being "None" or
\* the exception raised
interval_raises(e) == [left |-> 0, right |-> 0, raised |-> e]

interval(st, seriename) ==
    LET t == _serie_to_tablename(st, seriename)
    IN IF t.val = NoName THEN [st |-> t.st, val |-> interval_raises("ValueError")]
       ELSE IF ~has_table(t.st, t.val)
       THEN [st |-> t.st, val |-> interval_raises("ProgrammingError")]
       ELSE IF latest_rows(t.st, t.val) = {}
       THEN [st |-> t.st, val |-> interval_raises("AttributeError")]
       ELSE LET res == CHOOSE r \in latest_rows(t.st, t.val) : TRUE
            IN [st |-> metadata(t.st, seriename).st,
                val |-> [left |-> res.tsstart, right |-> res.tsend,
                         raised |-> "None"]]

--------------------------------------------------------------------------
\* rename, delete, update_metadata and the tx decorator

EmptyFunction == [x \in {} |-> x]

_resetcaches(st) ==
    [st EXCEPT !.metadatacache = EmptyFunction,
               !.registry_map = EmptyFunction,
               !.serie_tablename = EmptyFunction]

\* the tables of a schema but one
drop_table(tables, tablename) ==
    [t \in DOMAIN tables \ {tablename} |-> tables[t]]

rename(st, oldname, newname) ==
    IF /\ registered(st, oldname)
       /\ registry_unique_violation(st, registry_row(st, oldname).id, newname,
                                    registry_row(st, oldname).table_name)
    THEN tx(st, [st |-> st, val |-> Raised("IntegrityError")])
    ELSE [st |-> _resetcaches(
                    [st EXCEPT !.registry =
                        {IF r.seriename = oldname
                         THEN [r EXCEPT !.seriename = newname] ELSE r : r \in @}]),
          val |-> None]

\* delete: the changesets of the series are marked, its tables dropped and
\* its registry row deleted, which deletes its changeset_series rows
delete(st, seriename) ==
    LET t == _serie_to_tablename(st, seriename)
        tablename == t.val
    IN IF tablename = NoName THEN [st |-> t.st, val |-> None]
       ELSE IF ~has_table(t.st, tablename)
       THEN tx(st, [st |-> t.st, val |-> Raised("ProgrammingError")])
       ELSE
       LET csets == {r.cset : r \in t.st.timeserie[tablename].rows}
           st1 == [t.st EXCEPT !.changeset =
                      [c \in DOMAIN @ |->
                          IF c \in csets
                          THEN [@[c] EXCEPT !.info = "belonged to deleted series"]
                          ELSE @[c]]]
       IN \* fetchone() of no row cannot be unpacked
          IF ~registered(st1, seriename)
          THEN tx(st, [st |-> st1, val |-> Raised("TypeError")])
          ELSE
          LET row == registry_row(st1, seriename)
              st2 == [st1 EXCEPT
                        !.timeserie = drop_table(@, row.table_name),
                        !.snapshot = drop_table(@, row.table_name),
                        !.registry = @ \ {row},
                        !.changeset_series = {css \in @ : css.serie # row.id}]
          IN [st |-> _resetcaches(st2), val |-> None]

\* the keys of the metadata that describe the series
metakeys == {"tzaware", "index_type", "value_type"}

\* newmeta[key]: what the call gives, else what the series already has for
\* a key of metakeys, else nothing
newmeta_of(meta, md, key) ==
    IF key \in DOMAIN md THEN md[key]
    ELSE IF key \in metakeys THEN meta[key]
    ELSE "None"

\* update_metadata that takes every call as internal
update_metadata_unchecked(st, seriename, md, internal) ==
    LET m == metadata(st, seriename)
        newmeta == [tzaware |-> newmeta_of(m.val, md, "tzaware"),
                    index_type |-> newmeta_of(m.val, md, "index_type"),
                    value_type |-> newmeta_of(m.val, md, "value_type"),
                    topic |-> newmeta_of(m.val, md, "topic")]
    IN IF m.val = NoMeta
       THEN tx(st, [st |-> m.st, val |-> Raised("AttributeError")])
       ELSE [st |-> [m.st EXCEPT
                       !.metadatacache = drop_table(@, seriename),
                       !.registry =
                           {IF r.seriename = seriename
                            THEN [r EXCEPT !.metadata = newmeta] ELSE r : r \in @}],
             val |-> None]

\* update_metadata: md is the dict given, a record of some of the keys
update_metadata(st, seriename, md, internal) ==
    LET m == metadata(st, seriename)
        newmeta == [tzaware |-> newmeta_of(m.val, md, "tzaware"),
                    index_type |-> newmeta_of(m.val, md, "index_type"),
                    value_type |-> newmeta_of(m.val, md, "value_type"),
                    topic |-> newmeta_of(m.val, md, "topic")]
    IN IF ~internal /\ DOMAIN md \cap metakeys # {}
       THEN tx(st, [st |-> st, val |-> Raised("AssertionError")])
       ELSE IF m.val = NoMeta
       \* None has no get
       THEN tx(st, [st |-> m.st, val |-> Raised("AttributeError")])
       ELSE [st |-> [m.st EXCEPT
                       !.metadatacache = drop_table(@, seriename),
                       !.registry =
                           {IF r.seriename = seriename
                            THEN [r EXCEPT !.metadata = newmeta] ELSE r : r \in @}],
             val |-> None]

\* the tx decorator that lets every connection through
tx_unchecked(handle, st, called) == called

\* the tx decorator: handle is "engine" or "connection", a connection that
\* is not in a transaction; called is what the function does in the
\* transaction the decorator opens on an engine
tx_checked(handle, st, called) ==
    IF handle # "engine" THEN [st |-> st, kind |-> "TypeError"]
    ELSE called

--------------------------------------------------------------------------
\* Spec: one timeseries object over one database

\* changesets allocated in a run
MaxRevs == 3

Names == {"ts"}

\* the reference: every value date of newts is set to its value
applied(content, newts) ==
    [d \in Dates |-> IF d \in index(newts) THEN valueat(newts, d) ELSE content[d]]

\* the reference content as a series, the null dates removed
reference(content) ==
    LET ds == sorted({d \in Dates : content[d] # Null})
    IN [i \in 1..Len(ds) |-> [d |-> ds[i], v |-> content[ds[i]]]]

\* what a call returned: "none", "series" or the exception raised
kind(val) ==
    IF val = None THEN "none"
    ELSE IF IsRaised(val) THEN val[1].v
    ELSE "series"

\* what the last call was and what it returned: the operation, the kind of
\* its result, the series name and the first other argument; nodiff, pre and
\* typed (the dtypes of the series given) describe an insert; handle is what
\* the caller passed as cn
returned(op, kind_, seriename, arg) ==
    [op |-> op, kind |-> kind_, name |-> seriename, arg |-> arg,
     nodiff |-> FALSE, pre |-> "none", typed |-> ObjectType,
     handle |-> "engine"]

\* the connections callers hold on the database
Conns == {"c1", "c2"}

\* no transaction is open and the changeset sequence has given no id;
\* allocated and committed list the ids in the order they were drawn and
\* committed
NoTransaction ==
    [seq |-> 0,
     allocated |-> << >>,
     committed |-> << >>,
     conn |-> [c \in Conns |-> [pc |-> "idle", csid |-> 0, serie |-> 0]]]

\* the tables of a schema just created and a timeseries object just built
EmptyStore ==
    [registry |-> {},
     registry_seq |-> 0,
     changeset |-> << >>,
     changeset_series |-> {},
     timeserie |-> EmptyFunction,
     snapshot |-> EmptyFunction,
     metadatacache |-> EmptyFunction,
     registry_map |-> EmptyFunction,
     serie_tablename |-> EmptyFunction]

Init ==
    /\ tsh = EmptyStore
    /\ cn = NoTransaction
    /\ ret = returned("none", "none", "none", 0)
    /\ ref = [n \in Names |-> [d \in Dates |-> Null]]
    /\ base = None
    /\ other = << >>
    /\ out = None
    /\ pc = "store"

\* the insert reaches _update and the diff it computes there is empty
computes_empty_diff(st, seriename, newts) ==
    LET tablename == _serie_to_tablename(st, seriename).val
        f == find(st, tablename, << >>, indexmin(newts), indexmax(newts))
    IN /\ Len(newts) > 0
       /\ tablename # NoName
       /\ ~IsRaised(f.chunk)
       /\ Len(diff(f.chunk, newts)) = 0

\* what an insert is asked to do, by the reference content:
\*   "absent-null"  the series does not exist and newts holds no non-null point
\*   "absent"       the series does not exist and newts holds one
\*   "stripped-null", "stripped"   the same for a series left without any
\*                  revision row by strip
\*   "erase"        the series holds non-null points and would hold none
\*   "live"         anything else
insert_case(st, content, seriename, newts) ==
    IF ~registered(st, seriename)
    THEN IF Len(dropna(newts)) = 0 THEN "absent-null" ELSE "absent"
    ELSE IF /\ has_table(st, registry_row(st, seriename).table_name)
            /\ st.timeserie[registry_row(st, seriename).table_name].rows = {}
    THEN IF Len(dropna(newts)) = 0 THEN "stripped-null" ELSE "stripped"
    ELSE IF /\ Len(newts) > 0
            /\ Len(reference(content)) > 0
            /\ Len(reference(applied(content, newts))) = 0
         THEN "erase"
         ELSE "live"

\* insert of a series of dtypes tstype; insertion_date = 0: the caller gives
\* none
InsertAs(seriename, newts, tstype, insertion_date) ==
    /\ pc = "store"
    /\ Len(tsh.changeset) < MaxRevs
    /\ \E r \in {insert(tsh, newts, tstype, seriename, insertion_date)} :
          /\ tsh' = r.st
          /\ ret' = [returned("insert", kind(r.val), seriename, insertion_date)
                        EXCEPT !.nodiff = computes_empty_diff(tsh, seriename, newts),
                               !.pre = insert_case(tsh, ref[seriename],
                                                   seriename, newts),
                               !.typed = tstype]
          /\ ref' = IF IsRaised(r.val) THEN ref
                    ELSE [ref EXCEPT ![seriename] = applied(@, newts)]
    /\ UNCHANGED << diffvars, cn >>

\* insert of a series of strings
Insert(seriename, newts, insertion_date) ==
    InsertAs(seriename, newts, ObjectType, insertion_date)

Get(seriename, revision_date) ==
    /\ pc = "store"
    /\ \E r \in {get(tsh, seriename, revision_date, 0, 0)} :
          /\ tsh' = r.st
          /\ ret' = returned("get", kind(r.val), seriename, revision_date)
    /\ UNCHANGED << ref, diffvars, cn >>

History(seriename, from_insertion_date, to_insertion_date, diffmode) ==
    /\ pc = "store"
    /\ \E r \in {history(tsh, seriename, from_insertion_date, to_insertion_date,
                          0, 0, << >>, << >>, diffmode, FALSE)} :
          /\ tsh' = r.st
          /\ ret' = returned("history", r.kind, seriename, from_insertion_date)
    /\ UNCHANGED << ref, diffvars, cn >>

Staircase(seriename, delta) ==
    /\ pc = "store"
    /\ \E r \in {staircase(tsh, seriename, delta, 0, 0)} :
          /\ tsh' = r.st
          /\ ret' = returned("staircase", kind(r.val), seriename, delta)
    /\ UNCHANGED << ref, diffvars, cn >>

Next ==
    \/ \E n \in Names, ts \in AllSeries : Insert(n, ts, 0)
    \/ \E n \in Names : Get(n, 0)

Spec == Init /\ [][Next]_vars

\* SpecHist: the caller chooses the insertion dates, and reads the history

\* insertion dates range over 1..MaxIDate
MaxIDate == 3

\* staircase deltas range over 0..MaxDelta
MaxDelta == 1

IDates == 1..MaxIDate

\* the series inserted under SpecHist hold value dates 1..MaxHistDate
MaxHistDate == 2

\* the series that hold one value or null
OneValueSeries == {ts \in AllSeries : \A i \in DOMAIN ts : ts[i].v # "y"}

HistSeries ==
    {ts \in OneValueSeries : \A i \in DOMAIN ts : ts[i].d <= MaxHistDate}

NextHist ==
    \/ \E n \in Names, ts \in HistSeries, idate \in IDates : Insert(n, ts, idate)
    \/ \E n \in Names, revdate \in {0} \cup IDates : Get(n, revdate)
    \/ \E n \in Names, from \in {0} \cup IDates, to \in {0} \cup IDates,
          diffmode \in BOOLEAN : History(n, from, to, diffmode)
    \/ \E n \in Names, delta \in 0..MaxDelta : Staircase(n, delta)

SpecHist == Init /\ [][NextHist]_vars

\* SpecTypes: the series inserted are of strings or of floats, with a naive
\* or a tz-aware index

SeriesTypes ==
    [value_type : {"object", "float64"},
     index_type : {"datetime64[ns]", "datetime64[ns, UTC]"}]

\* _validate lets a series of nulls through whatever its dtypes; what pandas
\* then makes of nulls of dtype object against stored floats (np.isclose),
\* or of tz-aware dates against naive ones, is decided outside this code:
\* the series of nulls given to an existing series are of its dtypes, or
\* float nulls given to a series of strings
null_input_decided(st, seriename, newts, tstype) ==
    (registered(st, seriename) /\ Len(dropna(newts)) = 0) =>
        LET meta == registry_row(st, seriename).metadata
        IN /\ tstype.index_type = meta.index_type
           /\ tstype.value_type \in {meta.value_type, "float64"}

NextTypes ==
    \/ \E n \in Names, ts \in OneValueSeries, tstype \in SeriesTypes :
          null_input_decided(tsh, n, ts, tstype) /\ InsertAs(n, ts, tstype, 0)
    \/ \E n \in Names : Get(n, 0)

SpecTypes == Init /\ [][NextTypes]_vars

\* SpecFail: inserts are given a datetime without tzinfo as insertion date,
\* or none

\* a datetime without tzinfo
naive_datetime == -1

Exists(seriename) ==
    /\ pc = "store"
    /\ \E r \in {exists(tsh, seriename)} :
          /\ tsh' = r.st
          /\ ret' = returned("exists", IF r.val THEN "true" ELSE "false",
                              seriename, 0)
    /\ UNCHANGED << ref, diffvars, cn >>

AllLog ==
    /\ pc = "store"
    /\ ret' = returned("log", "list", "None", Len(log(tsh, 0, {}, 0, 0, 0, 0)))
    /\ UNCHANGED << tsh, ref, diffvars, cn >>

NextFail ==
    \/ \E n \in Names, ts \in OneValueSeries, idate \in {naive_datetime, 0} :
          Insert(n, ts, idate)
    \/ \E n \in Names : Get(n, 0)
    \/ \E n \in Names : Exists(n)
    \/ AllLog

SpecFail == Init /\ [][NextFail]_vars

\* SpecTx: callers insert into a series from several connections at once.
\* Each insert is one transaction (the tx decorator): it draws the id of its
\* changeset, writes its changeset_series row, and commits or rolls back; its
\* rows are seen by the others once committed.  The transaction is followed
\* through its writes to changeset and changeset_series, which are what log
\* reads; the rows of the series tables are those of the sequential
\* specifications.

\* the changeset sequence gives ids up to MaxSeq
MaxSeq == 4

\* nextval of the sequence behind changeset.id: the ids it gives are never
\* given again, whether the transaction that drew one commits or not
nextval(seq) == seq + 1

\* a store holding the series 'ts', created by one committed insert
InitTx ==
    /\ tsh = insert(EmptyStore, << [d |-> 1, v |-> "x"] >>, ObjectType, "ts", 0).st
    /\ cn = [NoTransaction EXCEPT !.seq = 1, !.allocated = << 1 >>,
                                    !.committed = << 1 >>]
    /\ ret = returned("none", "none", "none", 0)
    /\ ref = [n \in Names |-> [d \in Dates |-> IF d = 1 THEN "x" ELSE Null]]
    /\ base = None
    /\ other = << >>
    /\ out = None
    /\ pc = "store"

\* with cn.begin() as txcn
Begin(c) ==
    /\ pc = "store"
    /\ cn.conn[c].pc = "idle"
    /\ cn' = [cn EXCEPT !.conn[c].pc = "begun"]
    /\ UNCHANGED << storevars, diffvars >>

\* _newchangeset: insert into changeset ... returning id
NewChangeset(c) ==
    /\ pc = "store"
    /\ cn.conn[c].pc = "begun"
    /\ cn.seq < MaxSeq
    /\ cn' = [cn EXCEPT !.seq = nextval(@),
                        !.allocated = Append(@, nextval(cn.seq)),
                        !.conn[c].pc = "allocated",
                        !.conn[c].csid = nextval(cn.seq)]
    /\ UNCHANGED << storevars, diffvars >>

\* _finalize_insertion: the changeset_series row of the transaction
Finalize(c, seriename) ==
    /\ pc = "store"
    /\ cn.conn[c].pc = "allocated"
    /\ \E r \in {_name_to_regid(tsh, seriename)} :
          /\ tsh' = r.st
          /\ cn' = [cn EXCEPT !.conn[c].pc = "finalized",
                              !.conn[c].serie = r.val]
    /\ UNCHANGED << ret, ref, diffvars >>

\* the call returns and the transaction commits: its rows are seen by all
Commit(c) ==
    /\ pc = "store"
    /\ cn.conn[c].pc = "finalized"
    /\ LET csid == cn.conn[c].csid
           row == [id |-> csid, insertion_date |-> csid, info |-> "None"]
       IN tsh' = [tsh EXCEPT
                     !.changeset = (csid :> row) @@ @,
                     !.changeset_series =
                         @ \cup {[cset |-> csid, serie |-> cn.conn[c].serie]}]
    /\ cn' = [cn EXCEPT !.conn[c] = NoTransaction.conn[c],
                        !.committed = Append(@, cn.conn[c].csid)]
    /\ ret' = returned("commit", "none", "None", cn.conn[c].csid)
    /\ UNCHANGED << ref, diffvars >>

\* the call raises and the transaction rolls back: its rows are dropped
Rollback(c) ==
    /\ pc = "store"
    /\ cn.conn[c].pc \in {"begun", "allocated", "finalized"}
    /\ cn' = [cn EXCEPT !.conn[c] = NoTransaction.conn[c]]
    /\ ret' = returned("rollback", "raised", "None", cn.conn[c].csid)
    /\ UNCHANGED << tsh, ref, diffvars >>

NextTx ==
    \/ \E c \in Conns : Begin(c)
    \/ \E c \in Conns : NewChangeset(c)
    \/ \E c \in Conns, n \in Names : Finalize(c, n)
    \/ \E c \in Conns : Commit(c)
    \/ \E c \in Conns : Rollback(c)
    \/ AllLog

SpecTx == InitTx /\ [][NextTx]_vars

\* SpecGroup: a caller writes two series in one transaction.  insert has no
\* parameter for a changeset: what a caller can group is calls made with the
\* connection of one open transaction, which the tx decorator lets through
\* as they are.

GroupNames == <<"ts", "ts2">>

\* the outcome of the two calls: the transaction is the caller's, a call
\* that raises rolls both back
grouped_outcome(st, r1, r2) ==
    IF IsRaised(r1.val) THEN [st |-> r1.st, first |-> r1.val, second |-> None]
    ELSE [st |-> tx(st, r2).st, first |-> r1.val, second |-> r2.val]

grouped_second(st, r1, second) ==
    grouped_outcome(st, r1, insert(r1.st, second, ObjectType, GroupNames[2], 0))

\* with engine.begin() as cn: insert(cn, first, ...); insert(cn, second, ...)
grouped(st, first, second) ==
    grouped_second(st, insert(st, first, ObjectType, GroupNames[1], 0), second)

\* ret.pre and ret.kind: what the first and the second insert returned
InsertGroup(first, second) ==
    /\ pc = "store"
    /\ Len(tsh.changeset) + 2 <= MaxSeq
    /\ \E r \in {grouped(tsh, first, second)} :
          /\ tsh' = r.st
          /\ ret' = [returned("group", kind(r.second), GroupNames[2], 0)
                        EXCEPT !.pre = kind(r.first)]
    /\ UNCHANGED << ref, diffvars, cn >>

GetOf(seriename) ==
    /\ pc = "store"
    /\ \E r \in {get(tsh, seriename, 0, 0, 0)} :
          /\ tsh' = r.st
          /\ ret' = returned("get", kind(r.val), seriename, 0)
    /\ UNCHANGED << ref, diffvars, cn >>

NextGroup ==
    \/ \E first \in HistSeries, second \in HistSeries : InsertGroup(first, second)
    \/ \E i \in DOMAIN GroupNames : GetOf(GroupNames[i])
    \/ AllLog

SpecGroup == Init /\ [][NextGroup]_vars

\* SpecStrip: revisions are stripped, the log and the garbage are read

\* the reference content a stored series stands for
content_of(ts) ==
    [d \in Dates |-> IF ts # None /\ d \in index(ts) THEN valueat(ts, d) ELSE Null]

\* the reference restarts from the series the strip leaves
Strip(seriename, csid) ==
    /\ pc = "store"
    /\ \E r \in {strip(tsh, seriename, csid)} :
          /\ tsh' = r.st
          /\ ret' = returned("strip", kind(r.val), seriename, csid)
          /\ ref' = IF IsRaised(r.val) THEN ref
                    ELSE [ref EXCEPT ![seriename] =
                             content_of(get(r.st, seriename, 0, 0, 0).val)]
    /\ UNCHANGED << diffvars, cn >>

\* Snapshot(cn, tsh, seriename).reclaim()
Reclaim(seriename) ==
    /\ pc = "store"
    /\ \E t \in {_serie_to_tablename(tsh, seriename)} :
          \E r \in {IF has_table(t.st, t.val) THEN reclaim(t.st, t.val)
                     ELSE [st |-> t.st, val |-> Raised("ProgrammingError")]} :
             /\ tsh' = r.st
             /\ ret' = returned("reclaim", kind(r.val), seriename, 0)
    /\ UNCHANGED << ref, diffvars, cn >>

\* Snapshot(cn, tsh, seriename).garbage()
Garbage(seriename) ==
    /\ pc = "store"
    /\ \E t \in {_serie_to_tablename(tsh, seriename)} :
          /\ tsh' = t.st
          /\ ret' = returned("garbage",
                              IF has_table(t.st, t.val) THEN "set"
                              ELSE "ProgrammingError",
                              seriename, 0)
    /\ UNCHANGED << ref, diffvars, cn >>

Log(seriename) ==
    /\ pc = "store"
    /\ ret' = returned("log", "list", seriename,
                        Len(log(tsh, 0, {seriename}, 0, 0, 0, 0)))
    /\ UNCHANGED << tsh, ref, diffvars, cn >>

Interval(seriename) ==
    /\ pc = "store"
    /\ \E r \in {interval(tsh, seriename)} :
          /\ tsh' = r.st
          /\ ret' = returned("interval",
                              IF r.val.raised = "None" THEN "interval"
                              ELSE r.val.raised,
                              seriename, 0)
    /\ UNCHANGED << ref, diffvars, cn >>

NextStrip ==
    \/ \E n \in Names, ts \in OneValueSeries : Insert(n, ts, 0)
    \/ \E n \in Names, csid \in 1..MaxRevs : Strip(n, csid)
    \/ \E n \in Names : Reclaim(n)
    \/ \E n \in Names : Garbage(n)
    \/ \E n \in Names : Log(n)
    \/ \E n \in Names : Get(n, 0)
    \/ \E n \in Names : Interval(n)

SpecStrip == Init /\ [][NextStrip]_vars

--------------------------------------------------------------------------
\* SpecAdmin: series are renamed and deleted, their metadata updated, and the
\* decorated methods are called with an engine or with a bare connection

\* a name of 64 characters
LongName == "a-series-name-that-is-longer-than-a-postgresql-identifier-may-be"

AdminNames == {"ts", "ts2", LongName}

\* what a caller passes as cn
Handles == {"engine", "connection"}

\* the methods under the tx decorator
TxOps ==
    {"insert", "update_metadata", "history", "staircase", "rename", "delete",
     "strip"}

AdminSeries ==
    {<< [d |-> 1, v |-> "x"] >>,
     << [d |-> 1, v |-> "y"], [d |-> 2, v |-> "x"] >>}

\* the dicts given to update_metadata
Metadatas == {[topic |-> "a"], [value_type |-> "float64"]}

\* changesets allocated in a run of SpecAdmin
MaxAdminRevs == 2

\* the other arguments a method is called with, names being the series names
AdminArgs(op, names) ==
    CASE op = "insert" -> AdminSeries
      [] op = "update_metadata" ->
            {[metadata |-> md, internal |-> i] : md \in Metadatas, i \in BOOLEAN}
      [] op = "rename" -> names
      [] op = "strip" -> {1}
      [] op = "staircase" -> {MaxDelta}
      [] OTHER -> {0}

outcome(r) == [st |-> r.st, kind |-> kind(r.val)]

history_outcome(h) == [st |-> h.st, kind |-> h.kind]

\* the decorated method op of the timeseries object
timeseries_method(op, st, seriename, arg) ==
    CASE op = "insert" -> outcome(insert(st, arg, ObjectType, seriename, 0))
      [] op = "update_metadata" ->
            outcome(update_metadata(st, seriename, arg.metadata, arg.internal))
      [] op = "history" ->
            history_outcome(history(st, seriename, 0, 0, 0, 0, << >>, << >>,
                                    FALSE, FALSE))
      [] op = "staircase" -> outcome(staircase(st, seriename, arg, 0, 0))
      [] op = "rename" -> outcome(rename(st, seriename, arg))
      [] op = "delete" -> outcome(delete(st, seriename))
      [] op = "strip" -> outcome(strip(st, seriename, arg))

Called(op, handle, seriename, arg) ==
    /\ pc = "store"
    /\ op = "insert" => Len(tsh.changeset) < MaxAdminRevs
    /\ \E r \in {tx_checked(handle, tsh,
                            timeseries_method(op, tsh, seriename, arg))} :
          /\ tsh' = r.st
          /\ ret' = [returned(op, r.kind, seriename,
                               IF op = "insert" THEN 0 ELSE arg)
                        EXCEPT !.handle = handle]
    /\ UNCHANGED << ref, diffvars, cn >>

\* series are inserted, renamed, deleted and read through an engine
NextAdmin ==
    \/ \E op \in {"insert", "rename", "delete"}, n \in AdminNames :
          \E arg \in AdminArgs(op, AdminNames) : Called(op, "engine", n, arg)
    \/ \E n \in AdminNames : Get(n, 0)

SpecAdmin == Init /\ [][NextAdmin]_vars

\* SpecChecked: every decorated method is called on the series ts, with an
\* engine or with a connection that is not in a transaction
\* the names ts is renamed to
CheckedNames == {"ts", "ts2"}

NextChecked ==
    \/ \E op \in TxOps, handle \in Handles, n \in Names :
          \E arg \in AdminArgs(op, CheckedNames) : Called(op, handle, n, arg)
    \/ \E n \in Names : Get(n, 0)

SpecChecked == Init /\ [][NextChecked]_vars

\* SpecOthers: two series are inserted and stripped next to each other
NextOthers ==
    \/ \E n \in CheckedNames, ts \in AdminSeries : Called("insert", "engine", n, ts)
    \/ \E n \in CheckedNames, csid \in 1..MaxAdminRevs :
          Called("strip", "engine", n, csid)
    \/ \E n \in CheckedNames : GetOf(n)
    \/ AllLog

SpecOthers == Init /\ [][NextOthers]_vars

--------------------------------------------------------------------------
\* SpecPool: one run(func, argslist) of threadpool(maxthreads).  cn holds the
\* run: argslist (the thread started with argslist[i] is named i), count,
\* threads, copy (what is left of threads[:] in the for loop), at (where run
\* is: "initial", "while", "for", "returned" or the exception raised), calls
\* (how many times func was called with each element), alive (the threads
\* whose func has not returned) and exited (the threads run removed)

MaxThreads == 3

MaxArgs == 4

\* if count == maxthreads: break, with no test at all
breaks_never(count, maxthreads) == FALSE

\* if count == maxthreads: break
breaks(count, maxthreads) == count = maxthreads

\* if count < len(argslist), testing the element after the next one
starts_another_but_last(count, len) == count + 1 < len

\* if count < len(argslist)
starts_another(count, len) == count < len

threadpool(maxthreads, len) ==
    [maxthreads |-> maxthreads,
     argslist |-> [i \in 1..len |-> i],
     count |-> 0,
     threads |-> << >>,
     copy |-> << >>,
     at |-> "initial",
     calls |-> [i \in 1..len |-> 0],
     alive |-> {},
     exited |-> {}]

InitPool ==
    /\ \E maxthreads \in 0..MaxThreads, len \in 0..MaxArgs :
          cn = threadpool(maxthreads, len)
    /\ tsh = EmptyStore
    /\ ret = returned("none", "none", "none", 0)
    /\ ref = [n \in Names |-> [d \in Dates |-> Null]]
    /\ base = None
    /\ other = << >>
    /\ out = None
    /\ pc = "store"

\* th = threading.Thread(target=func, args=argslist[i - 1]);
\* threads.append(th); th.start()
start(run, i) ==
    [run EXCEPT !.threads = Append(@, i),
                !.calls[i] = @ + 1,
                !.alive = @ \cup {i}]

\* threads.remove(th)
remove(run, th) ==
    [run EXCEPT !.threads = SelectSeq(@, LAMBDA x : x # th),
                !.exited = @ \cup {th}]

\* one turn of 'for count, args in enumerate(argslist, start=1)'
Initial ==
    /\ cn.at = "initial"
    /\ cn' = IF cn.count = Len(cn.argslist) THEN [cn EXCEPT !.at = "while"]
             ELSE [start(cn, cn.count + 1) EXCEPT
                     !.count = @ + 1,
                     !.at = IF breaks(cn.count + 1, cn.maxthreads)
                            THEN "while" ELSE "initial"]
    /\ UNCHANGED << diffvars, storevars >>

\* while threads: for th in threads[:]
While ==
    /\ cn.at = "while"
    /\ cn' = IF cn.threads = << >> THEN [cn EXCEPT !.at = "returned"]
             ELSE [cn EXCEPT !.copy = cn.threads, !.at = "for"]
    /\ UNCHANGED << diffvars, storevars >>

\* th.join(1. / maxthreads) and what follows 'if not th.is_alive()'
joined(run, th) ==
    IF th \in run.alive THEN run
    ELSE IF starts_another(run.count, Len(run.argslist))
    THEN [start(remove(run, th), run.count + 1) EXCEPT !.count = @ + 1]
    ELSE remove(run, th)

\* one turn of 'for th in threads[:]'
Join ==
    /\ cn.at = "for"
    /\ cn' = IF cn.copy = << >> THEN [cn EXCEPT !.at = "while"]
             ELSE IF cn.maxthreads = 0 THEN [cn EXCEPT !.at = "ZeroDivisionError"]
             ELSE joined([cn EXCEPT !.copy = Tail(@)], Head(cn.copy))
    /\ UNCHANGED << diffvars, storevars >>

\* func returns in the thread th
Exit(th) ==
    /\ th \in cn.alive
    /\ cn' = [cn EXCEPT !.alive = @ \ {th}]
    /\ UNCHANGED << diffvars, storevars >>

Run == Initial \/ While \/ Join

NextPool ==
    \/ Run
    \/ \E th \in 1..MaxArgs : Exit(th)

SpecPool == InitPool /\ [][NextPool]_vars

\* run goes on as long as it can, and every call of func returns
SpecPoolFair ==
    SpecPool /\ WF_vars(Run) /\ \A th \in 1..MaxArgs : WF_vars(Exit(th))

--------------------------------------------------------------------------
\* SpecShared: callers in threads share one timeseries object, each call in a
\* transaction of its own on one database.  cn holds the committed registry
\* and tables, the cache serie_tablename, the holder of cachelock, the holder
\* of the advisory lock and, for each caller, where its call is (pc), what
\* the call is (op, name, arg), what it read or returned (val) and what its
\* transaction has written and not yet committed (add: registry rows, ren:
\* the rename of name to arg)

Callers == {"a", "b"}

\* calls made in a run
MaxCalls == 3

idle ==
    [pc |-> "idle", op |-> "none", name |-> NoName, arg |-> NoName,
     val |-> NoName, add |-> {}, ren |-> FALSE]

shared ==
    [registry |-> {},
     registry_seq |-> 0,
     tables |-> {},
     serie_tablename |-> [n \in CheckedNames |-> NoName],
     cachelock |-> "free",
     advisory |-> "free",
     calls |-> 0,
     th |-> [t \in Callers |-> idle]]

InitShared ==
    /\ cn = shared
    /\ tsh = EmptyStore
    /\ ret = returned("none", "none", "none", 0)
    /\ ref = [n \in Names |-> [d \in Dates |-> Null]]
    /\ base = None
    /\ other = << >>
    /\ out = None
    /\ pc = "store"

\* the registry as the transaction of t reads it: what is committed, with
\* what the transaction wrote itself
seen(run, t) ==
    [registry |->
        {IF run.th[t].ren /\ r.seriename = run.th[t].name
         THEN [r EXCEPT !.seriename = run.th[t].arg] ELSE r : r \in run.registry}
           \cup run.th[t].add,
     registry_seq |-> run.registry_seq]

\* another open transaction wrote a row with this name or this table name:
\* the statement waits for its end
waits(run, t, seriename, table_name) ==
    \E u \in Callers \ {t} :
       \/ \E r \in run.th[u].add :
             r.seriename = seriename \/ r.table_name = table_name
       \/ run.th[u].ren /\ seriename \in {run.th[u].name, run.th[u].arg}

\* the exception leaves the call: the transaction is rolled back, its locks
\* are released
raises(run, t, e) ==
    [run EXCEPT !.th[t] = [idle EXCEPT !.op = run.th[t].op,
                                       !.name = run.th[t].name,
                                       !.val = e],
                !.advisory = IF @ = t THEN "free" ELSE @]

\* tablename = self.serie_tablename.get(seriename), first statement of
\* _serie_to_tablename: a call of op on name begins with it
CacheGet(t, op, name) ==
    /\ cn.th[t].pc = "idle"
    /\ cn.calls < MaxCalls
    /\ cn' = [cn EXCEPT
                !.calls = @ + 1,
                !.th[t] = [idle EXCEPT
                             !.op = op,
                             !.name = name,
                             !.val = cn.serie_tablename[name],
                             !.pc = IF cn.serie_tablename[name] # NoName
                                    THEN "return" ELSE "query"]]
    /\ UNCHANGED << diffvars, storevars >>

\* select table_name from registry where seriename = ...
Query(t) ==
    /\ cn.th[t].pc = "query"
    /\ cn' = IF registered(seen(cn, t), cn.th[t].name)
             THEN [cn EXCEPT
                     !.th[t].val = registry_row(seen(cn, t), cn.th[t].name).table_name,
                     !.th[t].pc = "put"]
             ELSE [cn EXCEPT
                     !.th[t].pc = IF cn.th[t].op = "insert" THEN "lock"
                                  ELSE "return"]
    /\ UNCHANGED << diffvars, storevars >>

\* self.serie_tablename[seriename] = tablename
CachePut(t) ==
    /\ cn.th[t].pc = "put"
    /\ cn' = [cn EXCEPT !.serie_tablename[cn.th[t].name] = cn.th[t].val,
                        !.th[t].pc = "return"]
    /\ UNCHANGED << diffvars, storevars >>

\* a lock that any transaction gets at once
granted_at_once(holder, t) == TRUE

\* the lock is free, or the transaction holds it
granted(holder, t) == holder \in {"free", t}

\* select pg_advisory_xact_lock(create_lock_id)
AdvisoryLock(t) ==
    /\ cn.th[t].pc = "lock"
    /\ granted(cn.advisory, t)
    /\ cn' = [cn EXCEPT !.advisory = t, !.th[t].pc = "register"]
    /\ UNCHANGED << diffvars, storevars >>

\* the registry row _register_serie inserts
registry_row_for(run, t) ==
    [id |-> run.registry_seq + 1,
     seriename |-> run.th[t].name,
     table_name |-> _make_tablename(seen(run, t), run.th[t].name)]

\* _register_serie, then Snapshot(cn, self, seriename), which looks the table
\* name up and caches it, and the tables created
Register(t) ==
    /\ cn.th[t].pc = "register"
    /\ \E row \in {registry_row_for(cn, t)} :
          /\ ~waits(cn, t, row.seriename, row.table_name)
          /\ cn' = IF registry_unique_violation(seen(cn, t), 0, row.seriename,
                                                row.table_name)
                   THEN raises(cn, t, "IntegrityError")
                   ELSE [cn EXCEPT
                           !.registry_seq = @ + 1,
                           !.serie_tablename[row.seriename] =
                               IF @ # NoName THEN @ ELSE row.table_name,
                           !.th[t].add = {row},
                           !.th[t].val = row.table_name,
                           !.th[t].pc = "return"]
    /\ UNCHANGED << diffvars, storevars >>

\* rename: update registry set seriename = newname where seriename = oldname
Execute(t, oldname, newname) ==
    /\ cn.th[t].pc = "idle"
    /\ cn.calls < MaxCalls
    /\ ~waits(cn, t, oldname, "") /\ ~waits(cn, t, newname, "")
    /\ \E called \in {[cn EXCEPT !.calls = @ + 1,
                                  !.th[t] = [idle EXCEPT !.op = "rename",
                                                         !.name = oldname,
                                                         !.arg = newname]]} :
          cn' = IF /\ registered(seen(cn, t), oldname)
                   /\ registered(seen(cn, t), newname)
                THEN raises(called, t, "IntegrityError")
                ELSE [called EXCEPT !.th[t].ren = TRUE, !.th[t].pc = "reset"]
    /\ UNCHANGED << diffvars, storevars >>

\* _resetcaches: with self.cachelock
Acquire(t) ==
    /\ cn.th[t].pc = "reset"
    /\ cn.cachelock = "free"
    /\ cn' = [cn EXCEPT !.cachelock = t, !.th[t].pc = "clear"]
    /\ UNCHANGED << diffvars, storevars >>

\* _resetcaches: the caches cleared, the lock released
Clear(t) ==
    /\ cn.th[t].pc = "clear"
    /\ cn' = [cn EXCEPT !.serie_tablename = [n \in CheckedNames |-> NoName],
                        !.cachelock = "free",
                        !.th[t].pc = "return"]
    /\ UNCHANGED << diffvars, storevars >>

\* the call returns and its transaction is committed
Return(t) ==
    /\ cn.th[t].pc = "return"
    /\ cn' = [cn EXCEPT
                !.registry = seen(cn, t).registry,
                !.tables = @ \cup {r.table_name : r \in cn.th[t].add},
                !.advisory = IF @ = t THEN "free" ELSE @,
                !.th[t] = [idle EXCEPT !.op = cn.th[t].op,
                                       !.name = cn.th[t].name,
                                       !.arg = cn.th[t].arg,
                                       !.val = cn.th[t].val]]
    /\ UNCHANGED << diffvars, storevars >>

NextShared ==
    \/ \E t \in Callers, op \in {"get", "insert"}, n \in CheckedNames :
          CacheGet(t, op, n)
    \/ \E t \in Callers : Query(t)
    \/ \E t \in Callers : CachePut(t)
    \/ \E t \in Callers : AdvisoryLock(t)
    \/ \E t \in Callers : Register(t)
    \/ \E t \in Callers, oldname \in CheckedNames :
          \E newname \in CheckedNames \ {oldname} : Execute(t, oldname, newname)
    \/ \E t \in Callers : Acquire(t)
    \/ \E t \in Callers : Clear(t)
    \/ \E t \in Callers : Return(t)

SpecShared == InitShared /\ [][NextShared]_vars

--------------------------------------------------------------------------
\* Properties of diff and patch (SpecDiff)

points(ts) == {ts[i] : i \in DOMAIN ts}

\* C2 as stated: patch(base, diff(base, other)) equals other after
\* null-stripping, for all base and other.
C2_PatchDiffIsOther ==
    pc = "patch" => dropna(out) = dropna(other)

\* C2 amended: patch(base, diff(base, other)) equals, after null-stripping,
\* other applied over base; it equals other after null-stripping whenever
\* other has every date that holds a non-null value in base.
C2_PatchDiffRoundTrip ==
    pc = "patch" =>
        /\ dropna(out) = dropna(patch(base, other))
        /\ index(dropna(base)) \subseteq index(other)
               => dropna(out) = dropna(other)

\* C2 witness: a round trip through a diff that deletes a point of base
C2_Witness ==
    /\ pc = "patch"
    /\ index(dropna(base)) \subseteq index(other)
    /\ \E p \in points(diff(base, other)) : isnull(p.v)
    /\ \E p \in points(diff(base, other)) : ~isnull(p.v)
    /\ dropna(out) = dropna(other)
    /\ Len(dropna(out)) > 0

\* the entries C3 lists: the overlap entries whose value differs from base
\* and the new entries that are not null
C3_Expected(b, o) ==
    {p \in points(o) :
        \/ p.d \in index(b) /\ valueat(b, p.d) # p.v
        \/ p.d \notin index(b) /\ ~isnull(p.v)}

\* C3: for a non-empty base, diff(base, other) holds exactly the overlap
\* entries of other whose value differs from base and the non-null new
\* entries of other.
C3_DiffContent ==
    (pc = "diff" /\ base # None /\ Len(base) > 0) =>
        points(out) = C3_Expected(base, other)

\* C4: when base is absent or holds no entry, diff(base, other) is other
\* with its null entries removed.
C4_DiffOfEmptyBase ==
    (pc = "diff" /\ (base = None \/ Len(base) = 0)) =>
        out = dropna(other)

\* C5: diff(x, x) is empty for every series x.
C5_DiffOfSelfIsEmpty ==
    (pc = "diff" /\ base = other) => Len(out) = 0

--------------------------------------------------------------------------
\* Properties of the store (Spec)

\* the revision row of a changeset in the table of a registered series
revision_row(st, seriename, csid) ==
    CHOOSE r \in st.timeserie[registry_row(st, seriename).table_name].rows :
        r.cset = csid

\* the series stored at a revision, nulls included: its head reconstructed
stored_at(st, seriename, csid) ==
    chunk(st.snapshot[registry_row(st, seriename).table_name],
          revision_row(st, seriename, csid).snapshot, 0, 0)

\* the changesets of the revisions of a registered series
revisions(st, seriename) ==
    {r.cset : r \in st.timeserie[registry_row(st, seriename).table_name].rows}

\* C1: after any sequence of successful inserts, get(name) is the reference
\* result: the inserts applied in order, date by date, then the null dates
\* removed (nothing at all while the series does not exist).
C1_GetIsReference ==
    \A n \in Names :
        LET g == get(tsh, n, 0, 0, 0).val
        IN IF g = None THEN reference(ref[n]) = << >>
           ELSE g = reference(ref[n])

\* C1 witness: three revisions; a date held by the first is gone from the
\* second (overwritten with null) and is back in what get returns
C1_Witness ==
    \E n \in Names :
        /\ registered(tsh, n)
        /\ revisions(tsh, n) = {1, 2, 3}
        /\ \E d \in Dates :
              /\ d \in index(dropna(stored_at(tsh, n, 1)))
              /\ d \notin index(dropna(stored_at(tsh, n, 2)))
              /\ d \in index(get(tsh, n, 0, 0, 0).val)
        /\ get(tsh, n, 0, 0, 0).val = reference(ref[n])

\* the tables of the database
tables(st) ==
    << st.registry, st.registry_seq, st.changeset, st.changeset_series,
       st.timeserie, st.snapshot >>

\* C6: an insert into a live series whose computed diff is empty returns
\* nothing and leaves every table as it was: no changeset, no revision row,
\* no chunk.
C6_EmptyDiffChangesNothing ==
    [][(ret'.op = "insert" /\ ret'.nodiff) =>
          (ret'.kind = "none" /\ tables(tsh') = tables(tsh))]_vars

\* C6 witness: an insert into a series with revisions computed an empty diff
\* and returned nothing
C6_Witness ==
    /\ ret.op = "insert"
    /\ ret.nodiff
    /\ ret.kind = "none"
    /\ Len(tsh.changeset) >= 2

\* C7: from any state, inserting a series S twice in a row makes the second
\* insert return nothing and allocate no changeset.
C7_InsertTwice ==
    \A n \in Names, S \in AllSeries :
        LET first == insert(tsh, S, ObjectType, n, 0)
            second == insert(first.st, S, ObjectType, n, 0)
        IN ~IsRaised(first.val) =>
              /\ second.val = None
              /\ second.st.changeset = first.st.changeset

\* C14: the [tsstart, tsend] of every revision row an insert wrote are the
\* first and the last value date holding a non-null value in the full series
\* at that revision.
C14_SpanOfRevision ==
    \A n \in Names :
        registered(tsh, n) =>
            \A c \in revisions(tsh, n) :
                LET row == revision_row(tsh, n, c)
                    span == start_end(stored_at(tsh, n, c))
                IN row.tsstart = span.start /\ row.tsend = span.end

C19_NullFirstInsert ==
    [][(ret'.op = "insert" /\ ret'.pre = "absent-null") =>
          /\ ret'.kind = "none"
          /\ tables(tsh') = tables(tsh)
          /\ \A n \in Names :
                ~registered(tsh, n) =>
                    /\ ~registered(tsh', n)
                    /\ get(tsh', n, 0, 0, 0).val = None]_vars

\* C19 witness: a first insert of a series without non-null point returned
\* nothing and the database is empty
C19_Witness ==
    /\ ret.op = "insert"
    /\ ret.pre = "absent-null"
    /\ ret.kind = "none"
    /\ tsh.registry = {}
    /\ tsh.changeset = << >>

--------------------------------------------------------------------------
\* Properties of the dtypes (SpecTypes)

types_of(meta) == [value_type |-> meta.value_type, index_type |-> meta.index_type]

\* C16 as stated: once a series exists, every insert of a series whose value
\* type or index type differs from the registered ones raises and changes no
\* table.
C16_EveryMismatchRaises ==
    \A n \in Names, ts \in OneValueSeries, tstype \in SeriesTypes :
        (/\ registered(tsh, n)
         /\ Len(ts) > 0
         /\ null_input_decided(tsh, n, ts, tstype)
         /\ tstype # types_of(registry_row(tsh, n).metadata))
        => LET r == insert(tsh, ts, tstype, n, 0)
           IN kind(r.val) = "Exception" /\ tables(r.st) = tables(tsh)

\* C16: once a series exists, every insert of a series that holds a non-null
\* value and whose value type or index type differs from the registered ones
\* raises and changes no table, so every accepted insert that holds a
\* non-null value has the registered types.
C16_MismatchRaises ==
    \A n \in Names, ts \in OneValueSeries, tstype \in SeriesTypes :
        (/\ registered(tsh, n)
         /\ Len(dropna(ts)) > 0
         /\ tstype # types_of(registry_row(tsh, n).metadata))
        => LET r == insert(tsh, ts, tstype, n, 0)
           IN kind(r.val) = "Exception" /\ tables(r.st) = tables(tsh)

\* C16 witness: an insert of another index type was refused after two
\* revisions
C16_Witness ==
    /\ ret.op = "insert"
    /\ ret.kind = "Exception"
    /\ registered(tsh, ret.name)
    /\ ret.typed.value_type = registry_row(tsh, ret.name).metadata.value_type
    /\ ret.typed.index_type # registry_row(tsh, ret.name).metadata.index_type
    /\ Len(tsh.changeset) = 2

--------------------------------------------------------------------------
\* Properties of the failing inserts (SpecFail)

\* what exists, get, log and the caches answer for a series
answers(st, seriename) ==
    [exists |-> exists(st, seriename).val,
     get |-> get(st, seriename, 0, 0, 0).val,
     log |-> log(st, 0, {}, 0, 0, 0, 0),
     tablename |-> _serie_to_tablename(st, seriename).val,
     metadata |-> metadata(st, seriename).val,
     regid |-> _name_to_regid(st, seriename).val]

\* C17: when an insert raises, exists, get, log and the caches answer for
\* every series as they did before the call.
C17_FailureIsUndone ==
    [][(ret'.op = "insert" /\ ret'.kind \notin {"none", "series"}) =>
          \A n \in Names : answers(tsh', n) = answers(tsh, n)]_vars

--------------------------------------------------------------------------
\* Properties of strip and of the garbage (SpecStrip)

table_of(st, seriename) == registry_row(st, seriename).table_name

\* the revisions log lists for a series
logged(st, seriename) == log(st, 0, {seriename}, 0, 0, 0, 0)

\* C11: a strip(name, cs) that returns deletes exactly the revision rows
\* with cset >= cs; the log of the series then lists its former entries with
\* rev < cs, every remaining revision holds the series it held, and get
\* returns the series of the last remaining revision.
C11_StripKeepsEarlier ==
    [][(ret'.op = "strip" /\ ret'.kind = "none") =>
          LET n == ret'.name
              cs == ret'.arg
              t == table_of(tsh, n)
              before(entry) == entry.rev < cs
              left == revisions(tsh', n)
          IN /\ tsh'.timeserie[t].rows =
                    {r \in tsh.timeserie[t].rows : r.cset < cs}
             /\ logged(tsh', n) = SelectSeq(logged(tsh, n), before)
             /\ \A c \in left : stored_at(tsh', n, c) = stored_at(tsh, n, c)
             /\ get(tsh', n, 0, 0, 0).val =
                    IF left = {} THEN None
                    ELSE dropna(stored_at(tsh, n,
                             CHOOSE c \in left : \A x \in left : x <= c))]_vars

\* C11 witness: two of three revisions were stripped and the first is left
C11_Witness ==
    /\ ret.op = "strip"
    /\ ret.kind = "none"
    /\ ret.arg = 2
    /\ Len(tsh.changeset) = 3
    /\ revisions(tsh, ret.name) = {1}
    /\ Len(logged(tsh, ret.name)) = 1

\* the chunks reached from a chunk through the parent links
RECURSIVE C12_Ancestors(_, _)
C12_Ancestors(table, cid) ==
    IF \A c \in table.rows : c.id # cid THEN {}
    ELSE {cid} \cup C12_Ancestors(table, chunkrow(table, cid).parent)

\* the live chunks: those reached from the head of a revision row
C12_Live(st, tablename) ==
    UNION {C12_Ancestors(st.snapshot[tablename], r.snapshot) :
              r \in st.timeserie[tablename].rows}

C12_Chunks(st, tablename) == {c.id : c \in st.snapshot[tablename].rows}

\* C12: garbage() is exactly the set of chunks no revision head reaches
\* through the parent links, in every state and in the state strip leaves
\* its rows in when it calls reclaim(); reclaim() deletes exactly those chunks
\* and every live chunk stays.
C12_GarbageIsNotLive ==
    [][/\ \A n \in Names :
             registered(tsh', n) =>
                 garbage(tsh', table_of(tsh', n)) =
                     C12_Chunks(tsh', table_of(tsh', n))
                         \ C12_Live(tsh', table_of(tsh', n))
       /\ (ret'.op = "strip" /\ ret'.kind = "none") =>
             LET t == table_of(tsh, ret'.name)
                 mid == [tsh EXCEPT !.timeserie[t].rows = tsh'.timeserie[t].rows]
                 dead == C12_Chunks(mid, t) \ C12_Live(mid, t)
             IN /\ garbage(mid, t) = dead
                /\ tsh'.snapshot[t].rows =
                       {c \in tsh.snapshot[t].rows : c.id \notin dead}
                /\ C12_Live(tsh', t) = C12_Live(mid, t)]_vars

\* C12 witness: a strip reclaimed chunks and left a live chunk that is not
\* the head of a revision
C12_Witness ==
    /\ ret.op = "strip"
    /\ ret.kind = "none"
    /\ LET t == table_of(tsh, ret.name)
       IN /\ Cardinality(tsh.snapshot[t].rows) < tsh.snapshot[t].seq
          /\ \E c \in C12_Live(tsh, t) :
                \A r \in tsh.timeserie[t].rows : r.snapshot # c

\* C13: after a strip the series is live (get returns a series) when a
\* revision row remains and absent (get returns nothing) when none remains;
\* an insert of non-null data into a series strip left without revision
\* succeeds and makes it live again.
C13_StripThenInsert ==
    [][/\ (ret'.op = "strip" /\ ret'.kind = "none") =>
             (revisions(tsh', ret'.name) = {}
                 <=> get(tsh', ret'.name, 0, 0, 0).val = None)
       /\ (ret'.op = "insert" /\ ret'.pre = "stripped") =>
             /\ ret'.kind = "series"
             /\ revisions(tsh', ret'.name) # {}
             /\ get(tsh', ret'.name, 0, 0, 0).val # None]_vars

--------------------------------------------------------------------------
\* Properties of the concurrent transactions (SpecTx)

\* the ids of the entries of a log
revs_of(entries) == [i \in DOMAIN entries |-> entries[i].rev]

strictly_increasing(ids) ==
    \A i, j \in DOMAIN ids : i < j => ids[i] < ids[j]

\* C18: the changeset ids are strictly increasing in the order they were
\* allocated, and log lists the committed changesets in ascending id order,
\* whatever the order the transactions that drew them committed in.
C18_LogAscending ==
    /\ strictly_increasing(cn.allocated)
    /\ strictly_increasing(revs_of(log(tsh, 0, {}, 0, 0, 0, 0)))
    /\ \A n \in Names : strictly_increasing(revs_of(logged(tsh, n)))

\* C18 witness: log is read after the changeset 3 was committed before the
\* changeset 2, and lists 1, 2, 3
C18_Witness ==
    /\ ret.op = "log"
    /\ ret.arg = 3
    /\ cn.committed = << 1, 3, 2 >>
    /\ revs_of(log(tsh, 0, {}, 0, 0, 0, 0)) = << 1, 2, 3 >>

--------------------------------------------------------------------------
\* Properties of the inserts grouped in one transaction (SpecGroup)

\* the entries log has after a call and had not before
new_entries(before, after) ==
    LET isnew(entry) == entry.rev \notin DOMAIN before.changeset
    IN SelectSeq(log(after, 0, {}, 0, 0, 0, 0), isnew)

\* C20: the inserts a caller groups write under one changeset: when the
\* group returns, log has one new entry, which names every series an insert
\* of the group wrote (returned a diff for) and no series whose insert was a
\* no-op; a group of no-ops adds no entry.
C20_GroupSharesChangeset ==
    [][(/\ ret'.op = "group"
        /\ ret'.pre \in {"none", "series"}
        /\ ret'.kind \in {"none", "series"}) =>
          LET new == new_entries(tsh, tsh')
              written == (IF ret'.pre = "series" THEN {GroupNames[1]} ELSE {})
                         \cup (IF ret'.kind = "series" THEN {GroupNames[2]} ELSE {})
          IN IF written = {} THEN new = << >>
             ELSE /\ Len(new) = 1
                  /\ \A n \in written :
                        \E css \in tsh'.changeset_series, reg \in tsh'.registry :
                            /\ css.cset = new[1].rev
                            /\ reg.id = css.serie
                            /\ reg.seriename = n]_vars

--------------------------------------------------------------------------
\* Properties of the reads by insertion date (SpecHist)

idate_of(st, csid) == st.changeset[csid].insertion_date

\* the changeset with the largest revision row id among cs
largest_id(st, seriename, cs) ==
    CHOOSE c \in cs :
        \A x \in cs : revision_row(st, seriename, x).id
                          <= revision_row(st, seriename, c).id

C8_Expected(n, D) ==
    IF ~registered(tsh, n) THEN None
    ELSE LET cs == {c \in revisions(tsh, n) : idate_of(tsh, c) <= D}
         IN IF cs = {} THEN None
            ELSE dropna(stored_at(tsh, n, largest_id(tsh, n, cs)))

\* C8: get(name, revision_date=D) returns the series of the revision row
\* with the largest id among those inserted at or before D, and nothing
\* when there is none.
C8_GetAtRevisionDate ==
    \A n \in Names, D \in IDates :
        get(tsh, n, D, 0, 0).val = C8_Expected(n, D)

\* the revisions whose insertion date lies in [from, to] (0: no bound)
C9_InRange(n, from, to) ==
    {c \in revisions(tsh, n) :
        /\ from = 0 \/ idate_of(tsh, c) >= from
        /\ to = 0 \/ idate_of(tsh, c) <= to}

\* the history without value dates, deltas or diffmode
C9_History(n, from, to) ==
    history(tsh, n, from, to, 0, 0, << >>, << >>, FALSE, FALSE)

\* C9 as stated: history(name, from_idate, to_idate) holds one entry per
\* revision with an insertion date in [from_idate, to_idate], keyed by that
\* date, holding the null-stripped series of that revision, in ascending
\* changeset order, and nothing else.
C9_EntryPerRevision ==
    \A n \in Names, from \in {0} \cup IDates, to \in {0} \cup IDates :
        registered(tsh, n) =>
            LET h == C9_History(n, from, to)
                cs == sorted(C9_InRange(n, from, to))
            IN /\ h.kind = "map"
               /\ h.map = [i \in DOMAIN cs |->
                              [idate |-> idate_of(tsh, cs[i]),
                               ts |-> dropna(stored_at(tsh, n, cs[i]))]]

\* C9 amended: the map holds one entry per insertion date borne by a revision
\* in range; the entry holds the null-stripped series of the last revision
\* bearing that date, and the entries are listed in the order of the first
\* revision bearing each date; with distinct insertion dates this is one
\* entry per revision in ascending changeset order.
C9_EntryPerInsertionDate ==
    \A n \in Names, from \in {0} \cup IDates, to \in {0} \cup IDates :
        registered(tsh, n) =>
            LET h == C9_History(n, from, to)
                cs == C9_InRange(n, from, to)
                bearing(k) == {c \in cs : idate_of(tsh, c) = k}
                firstof(k) == CHOOSE c \in bearing(k) : \A x \in bearing(k) : c <= x
                lastof(k) == CHOOSE c \in bearing(k) : \A x \in bearing(k) : c >= x
            IN /\ h.kind = "map"
               /\ Len(h.map) = Cardinality({idate_of(tsh, c) : c \in cs})
               /\ \A i \in DOMAIN h.map :
                     /\ bearing(h.map[i].idate) # {}
                     /\ h.map[i].ts =
                            dropna(stored_at(tsh, n, lastof(h.map[i].idate)))
                     /\ \A j \in DOMAIN h.map :
                           i < j => firstof(h.map[i].idate) < firstof(h.map[j].idate)

\* C9 witness: a history was read over three revisions, two of them bearing
\* the same insertion date with different series
C9_Witness ==
    /\ ret.op = "history"
    /\ ret.kind = "map"
    /\ \E n \in Names :
          /\ registered(tsh, n)
          /\ revisions(tsh, n) = {1, 2, 3}
          /\ \E a, b, c \in {1, 2, 3} :
                /\ a < b
                /\ idate_of(tsh, a) = idate_of(tsh, b)
                /\ idate_of(tsh, c) # idate_of(tsh, a)
                /\ dropna(stored_at(tsh, n, a)) # dropna(stored_at(tsh, n, b))
          /\ Len(C9_History(n, 0, 0).map) = 2

\* what C10 describes: each value date v carries the value it has in the
\* most recent revision inserted at or before v - delta, when that value is
\* not null
C10_Expected(n, delta) ==
    IF ~registered(tsh, n) THEN None
    ELSE LET upto(v) == {c \in revisions(tsh, n) : idate_of(tsh, c) <= v - delta}
             recent(v) ==
                 CHOOSE c \in upto(v) :
                     \A x \in upto(v) :
                         \/ idate_of(tsh, x) < idate_of(tsh, c)
                         \/ idate_of(tsh, x) = idate_of(tsh, c) /\ x <= c
             held(v) ==
                 /\ upto(v) # {}
                 /\ v \in index(dropna(stored_at(tsh, n, recent(v))))
             ds == sorted({v \in Dates : held(v)})
         IN [i \in DOMAIN ds |->
               [d |-> ds[i], v |-> valueat(stored_at(tsh, n, recent(ds[i])), ds[i])]]

\* C10: staircase(name, delta) returns the series in which each value date v
\* carries the value of the most recent revision inserted at or before
\* v - delta, v being absent when that revision holds no non-null value.
C10_Staircase ==
    \A n \in Names, delta \in 0..MaxDelta :
        staircase(tsh, n, delta, 0, 0).val = C10_Expected(n, delta)

--------------------------------------------------------------------------
\* Properties of the chunks (SpecStrip)

\* the chunk table of a registered series
chunks_of(st, seriename) == st.snapshot[table_of(st, seriename)]

\* the heads of the revisions of a series
heads_of(st, seriename) ==
    {r.snapshot : r \in st.timeserie[table_of(st, seriename)].rows}

strictly_dated(ts) == \A i, j \in DOMAIN ts : i < j => ts[i].d < ts[j].d

\* C25: every chunk that has a parent starts after the end of its parent,
\* and reading any revision from its head, from any value date on, passes
\* the assertions of the decoder and gives strictly increasing dates.
C25_MonotonicChain ==
    \A n \in Names :
        registered(tsh, n) =>
            /\ \A c \in chunks_of(tsh, n).rows :
                  c.parent # 0 =>
                      \E p \in chunks_of(tsh, n).rows :
                          p.id = c.parent /\ p.cend < c.cstart
            /\ \A h \in heads_of(tsh, n), from \in 0..MaxDate :
                  /\ ~IsRaised(_chunks_to_ts(payloads(
                          rawchunks(chunks_of(tsh, n), h, from))))
                  /\ strictly_dated(_chunks_to_ts(payloads(
                          rawchunks(chunks_of(tsh, n), h, from))))

\* C25 witness: after inserts and a strip, a revision is read from a chain
\* of two chunks
C25_Witness ==
    /\ ret.op = "get"
    /\ ret.kind = "series"
    /\ \E e \in DOMAIN tsh.changeset : tsh.changeset[e].info = "stripped"
    /\ \E h \in heads_of(tsh, ret.name) :
          Len(rawchunks(chunks_of(tsh, ret.name), h, 0)) = 2

--------------------------------------------------------------------------
\* Properties of the first insert (Spec)

\* the chunks of series n are the points of S cut every max_bucket_size
\* points, in date order, each chunk chained onto the one written before it,
\* and the head of the only revision is the last one
C29_ChunksOf(st, n, S) ==
    LET k == (Len(S) + max_bucket_size - 1) \div max_bucket_size
        upto(i) == IF i * max_bucket_size < Len(S) THEN i * max_bucket_size
                   ELSE Len(S)
    IN /\ Cardinality(chunks_of(st, n).rows) = k
       /\ \A i \in 1..k :
             \E c \in chunks_of(st, n).rows :
                 /\ c.id = i
                 /\ c.parent = i - 1
                 /\ _chunks_to_ts(<< c.chunk >>) =
                        SubSeq(S, (i - 1) * max_bucket_size + 1, upto(i))
       /\ heads_of(st, n) = {k}

\* C29 as stated: the first insert of a series of n points that creates the
\* series writes ceil(n / max_bucket_size) chunks holding these n points.
C29_FirstInsertChunksGiven ==
    \A n \in Names, ts \in AllSeries :
        (~registered(tsh, n) /\ kind(insert(tsh, ts, ObjectType, n, 0).val) = "series")
        => C29_ChunksOf(insert(tsh, ts, ObjectType, n, 0).st, n, sort_index(ts))

\* C29: the first insert of a series that has n points from its first to its
\* last non-null value writes ceil(n / max_bucket_size) chunks, each holding
\* the next consecutive points of that range in date order, the first
\* without parent and each later one with the chunk written before it as
\* parent; the head of the revision is the last chunk written.
C29_FirstInsertChunks ==
    \A n \in Names, ts \in AllSeries :
        (~registered(tsh, n) /\ kind(insert(tsh, ts, ObjectType, n, 0).val) = "series")
        => C29_ChunksOf(insert(tsh, ts, ObjectType, n, 0).st, n,
                        loc(sort_index(ts), start_end(ts).start, start_end(ts).end))

\* C29 witness: a first insert of three points wrote two chunks
C29_Witness ==
    /\ ret.op = "insert"
    /\ ret.pre = "absent"
    /\ ret.kind = "series"
    /\ Len(tsh.changeset) = 1
    /\ Cardinality(chunks_of(tsh, ret.name).rows) = 2
    /\ Len(get(tsh, ret.name, 0, 0, 0).val) = 3

--------------------------------------------------------------------------
\* Properties of the bounded read (SpecStrip)

full_reconstruction(st, seriename, h) ==
    _chunks_to_ts(payloads(rawchunks(chunks_of(st, seriename), h, 0)))

\* C30: for every head h of a series and every bounds from, to (0: no bound),
\* the read that walks from h and stops at the first ancestor whose
\* cend < from returns the series of the whole chain of h restricted to the
\* value dates in [from, to]
C30_EarlyStopIsExact ==
    \A n \in Names :
       registered(tsh, n) =>
          \A h \in heads_of(tsh, n), from \in 0..MaxDate, to \in 0..MaxDate :
             chunk(chunks_of(tsh, n), h, from, to)
                = loc(full_reconstruction(tsh, n, h), from, to)

\* a head on a three-chunk chain whose walk from date 3 keeps one chunk and
\* from date 2 keeps two, read by a get
C30_Witness ==
    /\ ret.op = "get"
    /\ registered(tsh, ret.name)
    /\ \E h \in heads_of(tsh, ret.name) :
          /\ Len(rawchunks(chunks_of(tsh, ret.name), h, 0)) = 3
          /\ Len(rawchunks(chunks_of(tsh, ret.name), h, 2)) = 2
          /\ Len(rawchunks(chunks_of(tsh, ret.name), h, 3)) = 1
          /\ Len(chunk(chunks_of(tsh, ret.name), h, 2, 3)) = 2

--------------------------------------------------------------------------
\* Properties of Snapshot.update (SpecStrip)

chain(table, h) == rawchunks(table, h, 0)

\* the position on a chain of the chunk nearest to the head whose
\* cend < diffstart (0: there is none)
shared_upto(ch, diffstart) ==
    IF \E i \in DOMAIN ch : ch[i].cend < diffstart
    THEN CHOOSE i \in DOMAIN ch :
            /\ ch[i].cend < diffstart
            /\ \A j \in DOMAIN ch : ch[j].cend < diffstart => j <= i
    ELSE 0

\* the head update starts from, 0 when the series has no revision left
update_head(st, seriename) ==
    IF st.timeserie[table_of(st, seriename)].rows = {} THEN 0
    ELSE last_head(st, table_of(st, seriename))

overrides(ch, D) == D # << >> /\ indexmin(D) <= ch[Len(ch)].cend

\* what the rewrite of chain ch (of table T) by D into chain nch (of u.table)
\* must be, k being the position of the chunk C
rewritten(T, ch, D, k, u, nch) ==
    /\ ~u.raised
    /\ T.rows \subseteq u.table.rows
    /\ Len(nch) > k
    /\ SubSeq(nch, 1, k) = SubSeq(ch, 1, k)
    /\ \A i \in (k + 1)..Len(nch) :
          /\ nch[i] \notin T.rows
          /\ nch[i].parent = IF i = 1 THEN 0 ELSE nch[i - 1].id
    /\ \A i \in DOMAIN nch : nch[i] \in T.rows => nch[i].cend < indexmin(D)
    /\ u.table.rows \ T.rows = {nch[i] : i \in (k + 1)..Len(nch)}
    /\ LET bs == buckets(patch(_chunks_to_ts(payloads(SubSeq(ch, k + 1, Len(ch)))), D))
       IN payloads(SubSeq(nch, k + 1, Len(nch)))
              = [i \in DOMAIN bs |-> _serialize(bs[i])]

rewrites(T, h, D) ==
    rewritten(T, chain(T, h), D, shared_upto(chain(T, h), indexmin(D)),
              update(T, h, D), chain(update(T, h, D).table, update(T, h, D).head))

\* C27: when the diff D starts at or before the old tail, update writes the
\* buckets of patch(series of the chunks after C, D) chained onto C, the
\* chunk of the chain of H nearest to H whose cend < min(D.index) (onto no
\* parent when there is none); the chain of the new head is the chain of H
\* from its root to C followed by the new chunks, so that it holds no chunk
\* of the previous revisions whose cend >= min(D.index)
C27_RewriteSharesPrefix ==
    \A n \in Names :
       (registered(tsh, n) /\ update_head(tsh, n) # 0) =>
          \A D \in AllSeries :
             overrides(chain(chunks_of(tsh, n), update_head(tsh, n)), D)
                => rewrites(chunks_of(tsh, n), update_head(tsh, n), D)

\* an insert has rewritten the end of a chain: the new head is chained onto
\* a chunk that the head of the revision before is chained onto too
C27_Witness ==
    /\ ret.op = "insert"
    /\ ret.kind = "series"
    /\ registered(tsh, ret.name)
    /\ update_head(tsh, ret.name) # 0
    /\ \E c \in chunks_of(tsh, ret.name).rows, h \in heads_of(tsh, ret.name) :
          /\ c.id = update_head(tsh, ret.name)
          /\ c.parent # 0
          /\ h # c.id
          /\ chunkrow(chunks_of(tsh, ret.name), h).parent = c.parent

\* the smallest series the tests let an append chain onto (test_append)
min_bucket_size == 2

\* the chunks update(T, h, D) adds are the buckets of D alone, chained onto h
appended(T, h, D, u) ==
    /\ ~u.raised
    /\ LET bs == buckets(D)
           nch == chain(u.table, u.head)
       IN /\ Len(nch) = Len(chain(T, h)) + Len(bs)
          /\ SubSeq(nch, 1, Len(chain(T, h))) = chain(T, h)
          /\ u.table.rows \ T.rows
                = {nch[i] : i \in (Len(chain(T, h)) + 1)..Len(nch)}
          /\ \A i \in DOMAIN bs :
                nch[Len(chain(T, h)) + i].chunk = _serialize(bs[i])

\* the series update reads before it decides: the chunks from min(D.index) on
reconstructed(T, h, D) == _chunks_to_ts(payloads(rawchunks(T, h, indexmin(D))))

fast_path(T, h, D) ==
    /\ Len(reconstructed(T, h, D)) >= min_bucket_size
    /\ indexmin(D) > indexmax(reconstructed(T, h, D))

\* C26: update(D) on the head H appends (writes only the buckets of D, chained
\* onto H) exactly when the reconstructed series has at least min_bucket_size
\* points and min(D.index) is after the old tail; in every other case it
\* rewrites
C26_AppendIffLongEnough ==
    \A n \in Names :
       (registered(tsh, n) /\ update_head(tsh, n) # 0) =>
          \A D \in AllSeries \ {<< >>} :
             appended(chunks_of(tsh, n), update_head(tsh, n), D,
                      update(chunks_of(tsh, n), update_head(tsh, n), D))
                <=> fast_path(chunks_of(tsh, n), update_head(tsh, n), D)

--------------------------------------------------------------------------
\* Properties of the chunk sizes (SpecStrip)

npoints(c) == Len(c.chunk.indexes)

\* a chunk no chunk is chained onto
last_of_chain(table, c) == \A x \in table.rows : x.parent # c.id

at_most_max_bucket ==
    \A n \in Names :
       registered(tsh, n) =>
          \A c \in chunks_of(tsh, n).rows : npoints(c) <= max_bucket_size

\* C28: every chunk holds at most max_bucket_size points, and every chunk
\* that has a parent holds at least min_bucket_size points unless it is the
\* last chunk of its chain
C28_ChunkSizes ==
    /\ at_most_max_bucket
    /\ \A n \in Names :
          registered(tsh, n) =>
             \A c \in chunks_of(tsh, n).rows :
                (c.parent # 0 /\ ~last_of_chain(chunks_of(tsh, n), c))
                   => npoints(c) >= min_bucket_size

--------------------------------------------------------------------------
\* Properties of delete (SpecAdmin)

tables_of(st, seriename) ==
    [table_name |-> table_of(st, seriename),
     revisions |-> st.timeserie[table_of(st, seriename)],
     chunks |-> st.snapshot[table_of(st, seriename)]]

\* the insert of ts under seriename has created a series: it returns ts, and
\* the series has one revision, which holds ts
starts_new_history(r, seriename, ts) ==
    /\ r.val = ts
    /\ registered(r.st, seriename)
    /\ Cardinality(r.st.timeserie[table_of(r.st, seriename)].rows) = 1
    /\ get(r.st, seriename, 0, 0, 0).val = ts

gone(st, seriename) ==
    /\ ~exists(st, seriename).val
    /\ get(st, seriename, 0, 0, 0).val = None
    /\ \A ts \in AdminSeries :
          starts_new_history(insert(st, ts, ObjectType, seriename, 0),
                             seriename, ts)

\* C21: after delete(name) of an existing series, exists(name) is false,
\* get(name) returns nothing, an insert under that name creates a series
\* with one revision holding the series inserted, and the table name, the
\* revision rows and the chunks of every other series are what they were
C21_DeleteMakesGone ==
    [][(/\ ret'.op = "delete"
        /\ ret'.handle = "engine"
        /\ registered(tsh, ret'.name))
          => /\ ret'.kind = "none"
             /\ gone(tsh', ret'.name)
             /\ \A m \in AdminNames \ {ret'.name} :
                   registered(tsh, m)
                      => /\ registered(tsh', m)
                         /\ tables_of(tsh', m) = tables_of(tsh, m)]_vars

--------------------------------------------------------------------------
\* Properties of the table names (SpecAdmin)

\* the table name derived from a series name
derived_tablename(seriename) ==
    IF Len(seriename) > max_identifier_length
    THEN sha1_hexdigest(seriename) ELSE seriename

table_names(st) == {r.table_name : r \in st.registry}

\* C22: no two registry entries share a table name, and a series about to be
\* registered gets the table name derived from its name (the name, or the
\* digest of a name longer than 63) unless a registry entry already uses
\* that derived name, in which case it gets a name no entry uses
C22_TableNamesDistinct ==
    /\ \A r1, r2 \in tsh.registry :
          r1.table_name = r2.table_name => r1 = r2
    /\ \A n \in AdminNames :
          ~registered(tsh, n) =>
             /\ _make_tablename(tsh, n) \notin table_names(tsh)
             /\ derived_tablename(n) \notin table_names(tsh)
                   => _make_tablename(tsh, n) = derived_tablename(n)

--------------------------------------------------------------------------
\* Properties of update_metadata (SpecChecked)

reserved(meta) ==
    [tzaware |-> meta.tzaware, index_type |-> meta.index_type,
     value_type |-> meta.value_type]

carries_reserved(md) == DOMAIN md \cap metakeys # {}

\* the step is an update_metadata that went through the decorator
updates_metadata(r) == r.op = "update_metadata" /\ r.handle = "engine"

reserved_kept(st, st2) ==
    \A r \in st.registry, r2 \in st2.registry :
       r.id = r2.id => reserved(r2.metadata) = reserved(r.metadata)

\* C23 as stated: the keys tzaware, index_type and value_type of a series
\* keep their values in every step, and an update_metadata call that carries
\* one of them is rejected without state change
C23_ReservedKeysKept ==
    [][/\ reserved_kept(tsh, tsh')
       /\ (updates_metadata(ret') /\ carries_reserved(ret'.arg.metadata))
             => (ret'.kind # "none" /\ tsh' = tsh)]_vars

\* C23: an update_metadata call that carries a reserved key and is not made
\* with internal=True is rejected without state change, and the reserved
\* keys of a series change in no step but an accepted update_metadata call
\* made with internal=True that carries one
C23_ReservedKeysKeptUnlessInternal ==
    [][/\ (/\ updates_metadata(ret')
           /\ carries_reserved(ret'.arg.metadata)
           /\ ~ret'.arg.internal)
             => (ret'.kind = "AssertionError" /\ tsh' = tsh)
       /\ ~reserved_kept(tsh, tsh')
             => /\ updates_metadata(ret')
                /\ ret'.kind = "none"
                /\ ret'.arg.internal
                /\ carries_reserved(ret'.arg.metadata)]_vars

\* an accepted call has set topic on the series ts and left its types alone
C23_Witness ==
    /\ updates_metadata(ret)
    /\ ret.kind = "none"
    /\ ~ret.arg.internal
    /\ registered(tsh, ret.name)
    /\ registry_row(tsh, ret.name).metadata
          = [_series_initial_meta(<< >>, ObjectType) EXCEPT !.topic = "a"]

--------------------------------------------------------------------------
\* Properties of the tx decorator (SpecChecked)

raised(r) == r.kind \notin {"none", "series", "map"}

--------------------------------------------------------------------------
\* Properties of the multi-head walk (SpecHist)

\* the revisions findall is given for a set of revision rows, oldest first
revs_for(st, rows) ==
    [i \in 1..Cardinality(rows) |->
        [csid |-> rows_by_id(rows)[i].cset,
         idate |-> st.changeset[rows_by_id(rows)[i].cset].insertion_date]]

\* findall gives each revision of rows what chunk gives for its head
same_as_single(st, tablename, rows, found, from, to) ==
    \A i \in DOMAIN found :
       found[i].ts = chunk(st.snapshot[tablename],
                           rows_by_id(rows)[i].snapshot, from, to)

\* C31: for every non-empty set of revisions of a series and every bounds
\* from, to (0: no bound), findall returns for each revision the series that
\* chunk returns for the head of that revision with the same bounds
C31_MultiHeadWalkIsSingle ==
    \A n \in Names :
       registered(tsh, n) =>
          \A rows \in SUBSET tsh.timeserie[table_of(tsh, n)].rows \ {{}} :
             \A from \in 0..MaxDate, to \in 0..MaxDate :
                same_as_single(tsh, table_of(tsh, n), rows,
                               findall(tsh, table_of(tsh, n), revs_for(tsh, rows),
                                       from, to),
                               from, to)

\* a history was read of a series whose latest head is chained onto a chunk
\* that is the head of an older revision
C31_Witness ==
    /\ ret.op = "history"
    /\ ret.kind = "map"
    /\ registered(tsh, ret.name)
    /\ \E h1, h2 \in heads_of(tsh, ret.name) :
          /\ h1 # h2
          /\ chunkrow(chunks_of(tsh, ret.name), h2).parent = h1

--------------------------------------------------------------------------
\* Properties of the stored rows (SpecStrip)

\* the series every revision row of table t reconstructs to, by row
reconstructions(st, t) ==
    {[row |-> r, ts |-> chunk(st.snapshot[t], r.snapshot, 0, 0)] :
        r \in st.timeserie[t].rows}

\* the tables of st are in st2 with every row and chunk they hold
rows_kept(st, st2) ==
    \A t \in DOMAIN st.timeserie :
       /\ t \in DOMAIN st2.timeserie
       /\ st.timeserie[t].rows \subseteq st2.timeserie[t].rows
       /\ st.snapshot[t].rows \subseteq st2.snapshot[t].rows

\* st2 holds no table, row or chunk that st does not hold
rows_not_added(st, st2) ==
    \A t \in DOMAIN st2.timeserie :
       /\ t \in DOMAIN st.timeserie
       /\ st2.timeserie[t].rows \subseteq st.timeserie[t].rows
       /\ st2.snapshot[t].rows \subseteq st.snapshot[t].rows

\* C32: an insert keeps every revision row and every chunk as it was, and
\* every revision row reconstructs to the same series after it as before; a
\* step that removes a row or a chunk is a strip, a reclaim or a delete, and
\* a step that adds one is an insert
C32_InsertOnlyAdds ==
    [][/\ ret'.op = "insert"
             => /\ rows_kept(tsh, tsh')
                /\ \A t \in DOMAIN tsh.timeserie :
                      reconstructions(tsh, t) \subseteq reconstructions(tsh', t)
       /\ ~rows_kept(tsh, tsh') => ret'.op \in {"strip", "reclaim", "delete"}
       /\ ~rows_not_added(tsh, tsh') => ret'.op = "insert"]_vars

\* an insert has given a series with two revisions a third one
C32_Witness ==
    /\ ret.op = "insert"
    /\ ret.kind = "series"
    /\ registered(tsh, ret.name)
    /\ Cardinality(tsh.timeserie[table_of(tsh, ret.name)].rows) = 3
    /\ Cardinality(chunks_of(tsh, ret.name).rows) >= 3

--------------------------------------------------------------------------
\* Properties of the revisions stored (Spec, SpecStrip)

\* the series the revision row reconstructs to holds a point that is no nan
reconstructs_some(st, t, row) ==
    LET ts == chunk(st.snapshot[t], row.snapshot, 0, 0)
    IN ~IsRaised(ts) /\ \E i \in DOMAIN ts : ~isnull(ts[i].v)

C37_NoGarbageBetweenOperations ==
    \A t \in DOMAIN tsh.snapshot : garbage(tsh, t) = {}

\* a strip has removed the last revision of a series that keeps an older one,
\* whose chunks are the only ones left
C37_Witness ==
    /\ ret.op = "strip"
    /\ ret.kind = "none"
    /\ registered(tsh, ret.name)
    /\ Cardinality(tsh.timeserie[table_of(tsh, ret.name)].rows) = 1
    /\ chunks_of(tsh, ret.name).rows # {}

--------------------------------------------------------------------------
\* Properties of strip next to other series (SpecOthers)

\* what is stored and answered for the series: its revision rows, its
\* chunks, what get returns and its log entries
stored_for(st, seriename) ==
    [rows |-> st.timeserie[table_of(st, seriename)].rows,
     chunks |-> st.snapshot[table_of(st, seriename)].rows,
     get |-> get(st, seriename, 0, 0, 0).val,
     log |-> log(st, 0, {seriename}, 0, 0, 0, 0)]

\* the series has a changeset from csid on
has_changeset_from(st, seriename, csid) ==
    \E row \in st.timeserie[table_of(st, seriename)].rows : row.cset >= csid

\* C38: a strip of a series leaves the revision rows, the chunks, the get
\* result and the log entries of every other series as they were, those of
\* the changesets from the stripped one on included
C38_StripLeavesOthers ==
    [][ret'.op = "strip"
          => \A m \in CheckedNames :
                m # ret'.name /\ registered(tsh, m)
                   => /\ registered(tsh', m)
                      /\ stored_for(tsh', m) = stored_for(tsh, m)]_vars

\* a strip has gone through while another series holds a changeset from the
\* stripped one on
C38_Witness ==
    /\ ret.op = "strip"
    /\ ret.kind = "none"
    /\ \E m \in CheckedNames :
          /\ m # ret.name
          /\ registered(tsh, m)
          /\ has_changeset_from(tsh, m, ret.arg)
          /\ Len(log(tsh, 0, {m}, ret.arg, 0, 0, 0)) > 0

--------------------------------------------------------------------------
\* Properties of threadpool (SpecPool, SpecPoolFair)

\* the threads started that run has not seen finished
pending == {i \in DOMAIN cn.calls : cn.calls[i] > 0} \ cn.exited

\* C39: with maxthreads >= 1, the threads started and not yet seen finished
\* by run are never more than maxthreads
C39_AtMostMaxthreads ==
    cn.maxthreads >= 1 => Cardinality(pending) <= cn.maxthreads

\* run has replaced a finished thread and maxthreads threads are pending
C39_Witness ==
    /\ cn.maxthreads >= 1
    /\ cn.exited # {}
    /\ Cardinality(pending) = cn.maxthreads
    /\ cn.count > cn.maxthreads

\* run is over: it has returned, or raised
ended == cn.at \notin {"initial", "while", "for"}

\* func was called once with each element and every thread has finished
all_done ==
    /\ \A i \in DOMAIN cn.argslist : cn.calls[i] = 1
    /\ cn.alive = {}
    /\ pending = {}

\* C40: when every call of func returns, run ends (with maxthreads >= 1 it
\* returns), and when it has returned func has been called exactly once with
\* each element of argslist and every thread has finished
C40_RunTerminates ==
    /\ <>ended
    /\ cn.maxthreads >= 1 => <>(cn.at = "returned")
    /\ [](cn.at = "returned" => all_done)

\* run has returned after more calls than maxthreads
C40_Witness ==
    /\ cn.at = "returned"
    /\ cn.maxthreads >= 1
    /\ Len(cn.argslist) > cn.maxthreads
    /\ all_done

--------------------------------------------------------------------------
\* Properties of callers sharing one object (SpecShared)

\* no call is under way
quiet == \A t \in Callers : cn.th[t].pc = "idle"

\* what the cache holds for the name is what the committed registry holds
serves_registry(n) ==
    cn.serie_tablename[n] # NoName
       => \E r \in cn.registry :
             r.seriename = n /\ r.table_name = cn.serie_tablename[n]

\* C33: once the calls have returned, the cache serves no table name that
\* disagrees with the committed registry
C33_CacheAgreesWithRegistry == quiet => \A n \in CheckedNames : serves_registry(n)

\* where the next statement of a call reads or writes the cache
accesses(t) ==
    \/ cn.th[t].pc \in {"put", "clear"}
    \/ cn.th[t].pc = "idle" /\ cn'.th[t].pc \in {"query", "return"}
    \/ cn.th[t].pc = "register" /\ cn'.th[t].pc = "return"

\* C34: every read and every write of the cache is made by a caller that
\* holds cachelock
C34_CacheUnderMutex ==
    [][\A t \in Callers :
          cn'.th[t] # cn.th[t] /\ accesses(t) => cn.cachelock = t]_vars

\* the rows of the registry, committed or written by an open transaction
registrations(n) ==
    {r \in cn.registry : r.seriename = n}
       \cup {r \in UNION {cn.th[t].add : t \in Callers} : r.seriename = n}

============================================================================
